---- MODULE Spec2Model ----
(***************************************************************************)
(* A model of the websocket connector of taos-connector-rust:              *)
(*   - taos-ws/src/lib.rs      WsInfo (descriptor resolution, endpoint     *)
(*                             URLs, handshake payload) and the Ws facade  *)
(*                             with its two lazily filled transport slots; *)
(*   - taos-ws-sys/src/lib.rs  the C boundary: session and result-set      *)
(*                             handles, error capture and accessors.       *)
(*                                                                         *)
(* Three specifications share the module's variables:                      *)
(*   SpecDsn  WsInfo::from_dsn and the pure builders, over bounded         *)
(*            descriptors;                                                 *)
(*   SpecWs   concurrent query/exec calls on one Ws facade;                *)
(*   SpecFfi  sequences of boundary calls over a small heap of handles.    *)
(* Each specification holds the other parts' variables at their initial    *)
(* values.                                                                 *)
(***************************************************************************)
EXTENDS Integers, Sequences, FiniteSets, TLC

VARIABLES
    \* ---- SpecDsn: WsInfo::from_dsn(dsn) and the builders -----------------
    arg,         \* the descriptor the caller passes to WsInfo::from_dsn
    parse_ok,    \* whether dsn.into_dsn() succeeded (lib.rs:40)
    dsn,         \* the local `mut dsn` of WsInfo::from_dsn
    resolved,    \* <<>> before the call, then <<[ok, info | err]>>
    out,         \* the last builder's output, <<>> before any
    \* ---- SpecWs: the Ws facade ------------------------------------------
    ws_made,     \* whether Ws::from_dsn has constructed the facade
    slot,        \* [sync |-> OnceCell<WsClient>, async |-> OnceCell<WsAsyncClient>]
    built,       \* number of transports constructed so far (their ids 1..built)
    call,        \* per caller: the position inside query/exec and its locals
    executed,    \* statements run: [op, kind, transport, seen, mine, made]
    discarded,   \* transports dropped without having been stored
    first,       \* per slot: the transport stored first (history)
    started,     \* number of calls begun (bounded by MaxCalls)
    \* ---- SpecFfi: the C boundary ----------------------------------------
    heap,        \* address -> Free | a boxed WsTaos | a boxed WsResultSet
    ret,         \* the last boundary call and what it returned
    sent,        \* the statements handed to the transport, in order: <<client, sql>>
    clients,     \* number of WsClient sessions opened so far
    outp,        \* the caller's out-parameters of ws_fetch_block: [ptr, rows]
    ncalls       \* number of boundary calls made since the initial state that
                 \* allocate or release a box (bounded by MaxFfiCalls)

dsnVars == <<arg, parse_ok, dsn, resolved, out>>
wsVars  == <<ws_made, slot, built, call, executed, discarded, first, started>>
ffiVars == <<heap, ret, sent, clients, outp, ncalls>>
vars    == <<arg, parse_ok, dsn, resolved, out,
             ws_made, slot, built, call, executed, discarded, first, started,
             heap, ret, sent, clients, outp, ncalls>>

(***************************************************************************)
(* Option<T>: None is the empty tuple, Some(v) the one-element tuple.      *)
(***************************************************************************)
None == <<>>
Some(v) == <<v>>
IsSome(o) == o # <<>>
Unwrap(o) == o[1]
UnwrapOr(o, d) == IF o = <<>> THEN d ELSE o[1]
Opt(S) == {None} \cup {Some(v) : v \in S}

(***************************************************************************)
(* Bounds of the descriptor universe.                                      *)
(***************************************************************************)
\* longest address list of a descriptor
MaxAddrs == 2

Drivers   == {"ws", "http", "wss", "https", "taos", "tmq", "mysql"}
Protocols == Opt({"ws", "http", "wss", "https", "tcp"})
Addrs     == {"h1:6041", "tdhost:6030"}
Tokens    == {"t0k", "abc123"}
Users     == {"root", "alice"}
Passwords == {"taosdata", "s3cret"}
Databases == {"db1"}
\* parameter maps: an optional token and an optional unrelated key
ParamMaps ==
    {[k \in {} |-> ""]}
    \cup {[k \in {"token"} |-> t] : t \in Tokens}
    \cup {[k \in {"timeout"} |-> "5s"]}
    \cup {[k \in {"token", "timeout"} |-> IF k = "token" THEN t ELSE "5s"] : t \in Tokens}

RECURSIVE SeqsUpTo(_, _)
SeqsUpTo(S, n) ==
    IF n = 0 THEN {<<>>}
    ELSE LET shorter == SeqsUpTo(S, n - 1)
         IN  shorter \cup {Append(s, x) : s \in {q \in shorter : Len(q) = n - 1}, x \in S}

DsnInputs ==
    [driver    : Drivers,
     protocol  : Protocols,
     addresses : SeqsUpTo(Addrs, MaxAddrs),
     params    : ParamMaps,
     username  : Opt(Users),
     password  : Opt(Passwords),
     database  : Opt(Databases)]

(***************************************************************************)
(* Text.  A URL is modelled as the sequence of its characters, so that     *)
(* "contains", "ends with" and "occurs n times" are computed on the text   *)
(* format! produces.  Chars gives the characters of each string of the     *)
(* descriptor universe and of the literals of the format strings.          *)
(***************************************************************************)
Chars(s) ==
    CASE s = "ws"             -> <<"w","s">>
      [] s = "wss"            -> <<"w","s","s">>
      [] s = "://"            -> <<":","/","/">>
      [] s = "/rest/ws"       -> <<"/","r","e","s","t","/","w","s">>
      [] s = "/rest/stmt"     -> <<"/","r","e","s","t","/","s","t","m","t">>
      [] s = "/rest/tmq"      -> <<"/","r","e","s","t","/","t","m","q">>
      [] s = "?token="        -> <<"?","t","o","k","e","n","=">>
      [] s = "token="         -> <<"t","o","k","e","n","=">>
      [] s = "localhost:6041" -> <<"l","o","c","a","l","h","o","s","t",":","6","0","4","1">>
      [] s = "h1:6041"        -> <<"h","1",":","6","0","4","1">>
      [] s = "tdhost:6030"    -> <<"t","d","h","o","s","t",":","6","0","3","0">>
      [] s = "t0k"            -> <<"t","0","k">>
      [] s = "abc123"         -> <<"a","b","c","1","2","3">>
      [] s = "root"           -> <<"r","o","o","t">>
      [] s = "alice"          -> <<"a","l","i","c","e">>
      [] s = "taosdata"       -> <<"t","a","o","s","d","a","t","a">>
      [] s = "s3cret"         -> <<"s","3","c","r","e","t">>
      [] s = "@"              -> <<"@">>
      [] s = ":"              -> <<":">>

\* the positions at which `needle` occurs in `hay`
Occurrences(needle, hay) ==
    {i \in 1..(Len(hay) - Len(needle) + 1) :
        SubSeq(hay, i, i + Len(needle) - 1) = needle}
Contains(hay, needle) == Occurrences(needle, hay) # {}
EndsWith(hay, suffix) ==
    /\ Len(suffix) <= Len(hay)
    /\ SubSeq(hay, Len(hay) - Len(suffix) + 1, Len(hay)) = suffix

(***************************************************************************)
(* WsInfo::from_dsn, lib.rs:39-75.                                         *)
(***************************************************************************)
\* the match of lib.rs:41-50; None stands for the `_ => Err(InvalidDriver)` arm
SchemeOf_AnyTaos(driver, protocol) ==
    CASE driver \in {"ws", "http"}   -> Some("ws")
      [] driver \in {"wss", "https"} -> Some("wss")
      [] driver = "taos"             -> Some("ws")
      [] OTHER                       -> None
SchemeOf(driver, protocol) ==
    CASE driver \in {"ws", "http"}                                 -> Some("ws")
      [] driver \in {"wss", "https"}                               -> Some("wss")
      [] driver = "taos" /\ protocol \in {Some("ws"), Some("http")}   -> Some("ws")
      [] driver = "taos" /\ protocol \in {Some("wss"), Some("https")} -> Some("wss")
      [] OTHER                                                     -> None

\* HashMap::remove: the map without the key
MapRemove(m, k) == [x \in DOMAIN m \ {k} |-> m[x]]
\* HashMap::remove's return value (lib.rs:51)
MapGet(m, k) == IF k \in DOMAIN m THEN Some(m[k]) ELSE None

\* lib.rs:53-56
AddrOf_Last(addresses) ==
    IF Len(addresses) > 0 THEN addresses[Len(addresses)] ELSE "localhost:6041"
AddrOf(addresses) ==
    IF Len(addresses) > 0 THEN addresses[1] ELSE "localhost:6041"

\* lib.rs:58-74: WsAuth::Token(token) or WsAuth::Plain(username, password)
AuthOf_PlainFirst(token, username, password) ==
    IF IsSome(username) /\ IsSome(password)
    THEN [mode |-> "Plain", user |-> Unwrap(username), pass |-> Unwrap(password)]
    ELSE IF IsSome(token)
    THEN [mode |-> "Token", token |-> Unwrap(token)]
    ELSE [mode |-> "Plain",
          user |-> UnwrapOr(username, "root"),
          pass |-> UnwrapOr(password, "taosdata")]
AuthOf(token, username, password) ==
    IF IsSome(token)
    THEN [mode |-> "Token", token |-> Unwrap(token)]
    ELSE [mode |-> "Plain",
          user |-> UnwrapOr(username, "root"),
          pass |-> UnwrapOr(password, "taosdata")]

\* The whole function: the result and the local dsn as the function leaves it.
FromDsn(ok, d) ==
    IF ~ok
    THEN [res |-> [ok |-> FALSE, err |-> "DsnParse"], dsn |-> d]
    ELSE LET scheme == SchemeOf(d.driver, d.protocol)
         IN  IF scheme = None
             THEN [res |-> [ok |-> FALSE, err |-> "InvalidDriver", descriptor |-> d],
                   dsn |-> d]
             ELSE LET token == MapGet(d.params, "token")
                      d2    == [d EXCEPT !.params = MapRemove(d.params, "token")]
                  IN  [res |-> [ok   |-> TRUE,
                                info |-> [scheme   |-> Unwrap(scheme),
                                          addr     |-> AddrOf(d2.addresses),
                                          auth     |-> AuthOf(token, d2.username, d2.password),
                                          database |-> d2.database]],
                       dsn |-> d2]

(***************************************************************************)
(* The endpoint builders, lib.rs:76-101, and the handshake payload,        *)
(* lib.rs:103-116.                                                         *)
(***************************************************************************)
to_query_url(info) ==
    IF info.auth.mode = "Token"
    THEN Chars(info.scheme) \o Chars("://") \o Chars(info.addr) \o Chars("/rest/ws")
         \o Chars("?token=") \o Chars(info.auth.token)
    ELSE Chars(info.scheme) \o Chars("://") \o Chars(info.addr) \o Chars("/rest/ws")

to_stmt_url_NoToken(info) ==
    Chars(info.scheme) \o Chars("://") \o Chars(info.addr) \o Chars("/rest/stmt")
to_stmt_url(info) ==
    IF info.auth.mode = "Token"
    THEN Chars(info.scheme) \o Chars("://") \o Chars(info.addr) \o Chars("/rest/stmt")
         \o Chars("?token=") \o Chars(info.auth.token)
    ELSE Chars(info.scheme) \o Chars("://") \o Chars(info.addr) \o Chars("/rest/stmt")

to_tmq_url(info) ==
    IF info.auth.mode = "Token"
    THEN Chars(info.scheme) \o Chars("://") \o Chars(info.addr) \o Chars("/rest/tmq")
         \o Chars("?token=") \o Chars(info.auth.token)
    ELSE Chars(info.scheme) \o Chars("://") \o Chars(info.addr) \o Chars("/rest/tmq")

to_conn_request_TokenAsPassword(info) ==
    IF info.auth.mode = "Token"
    THEN [user |-> Some("root"), password |-> Some(info.auth.token), db |-> info.database]
    ELSE [user |-> Some(info.auth.user), password |-> Some(info.auth.pass),
          db |-> info.database]
to_conn_request(info) ==
    IF info.auth.mode = "Token"
    THEN [user |-> Some("root"), password |-> Some("taosdata"), db |-> info.database]
    ELSE [user |-> Some(info.auth.user), password |-> Some(info.auth.pass),
          db |-> info.database]

(***************************************************************************)
(* SpecDsn: one call of WsInfo::from_dsn on a descriptor, then any         *)
(* sequence of builder calls on the resolved info.                         *)
(***************************************************************************)
WsInit ==
    /\ ws_made = FALSE
    /\ slot = [sync |-> 0, async |-> 0]
    /\ built = 0
    /\ call = <<>>
    /\ executed = {}
    /\ discarded = {}
    /\ first = [sync |-> 0, async |-> 0]
    /\ started = 0

FfiInit ==
    /\ heap = <<>>
    /\ ret = [op |-> "none"]
    /\ sent = <<>>
    /\ clients = 0
    /\ outp = <<>>
    /\ ncalls = 0

InitDsn ==
    /\ parse_ok \in BOOLEAN
    /\ arg \in DsnInputs
    /\ dsn = arg
    /\ resolved = <<>>
    /\ out = <<>>
    /\ WsInit
    /\ FfiInit

Resolve ==
    /\ resolved = <<>>
    /\ LET r == FromDsn(parse_ok, dsn)
       IN  /\ resolved' = <<r.res>>
           /\ dsn' = r.dsn
    /\ UNCHANGED <<arg, parse_ok, out>>
    /\ UNCHANGED <<wsVars, ffiVars>>

Info == resolved[1].info
Resolved == resolved # <<>> /\ resolved[1].ok

Build(fn, val) ==
    /\ Resolved
    /\ out' = <<[fn |-> fn, val |-> val]>>
    /\ UNCHANGED <<arg, parse_ok, dsn, resolved>>
    /\ UNCHANGED <<wsVars, ffiVars>>

ToQueryUrl    == Build("to_query_url", to_query_url(Info))
ToStmtUrl     == Build("to_stmt_url", to_stmt_url(Info))
ToTmqUrl      == Build("to_tmq_url", to_tmq_url(Info))
ToConnRequest == Build("to_conn_request", to_conn_request(Info))

NextDsn ==
    \/ Resolve
    \/ ToQueryUrl
    \/ ToStmtUrl
    \/ ToTmqUrl
    \/ ToConnRequest

SpecDsn == InitDsn /\ [][NextDsn]_vars

(***************************************************************************)
(* SpecWs: the Ws facade, lib.rs:119-203.  Callers share one facade (Ws is *)
(* declared Send and Sync, lib.rs:127-128) and run query, exec (blocking   *)
(* slot) and the asynchronous query (non-blocking slot) concurrently.  A   *)
(* call is split at the points where another caller can run: the get() of  *)
(* the slot, the construction of a transport, get_or_init, the statement.  *)
(* A slot holds 0 when empty, else the id of the transport stored.         *)
(***************************************************************************)
\* number of concurrent callers of the facade
NumCallers == 2
\* number of query/exec calls begun in one run
MaxCalls == 3

Callers == 1..NumCallers
Ops == {"query", "exec", "async_query"}
\* the slot an operation uses: sync_client (lib.rs:160, 171) or async_client (lib.rs:193)
KindOf(op) == IF op = "async_query" THEN "async" ELSE "sync"

\* the descriptor of the facade's tests, ws://localhost:6041/
TestDsn ==
    [driver |-> "ws", protocol |-> None, addresses |-> <<"localhost:6041">>,
     params |-> [k \in {} |-> ""], username |-> None, password |-> None,
     database |-> None]

Idle == [pc |-> "idle", op |-> "none", kind |-> "sync",
         seen |-> 0, mine |-> 0, use |-> 0, made |-> 0, last |-> "none"]

\* OnceCell::get: None while the cell is empty
SlotGet_Never(cell) == None
SlotGet(cell) == IF cell = 0 THEN None ELSE Some(cell)

\* OnceCell::get_or_init(|| v): the content of the cell after the call, which
\* is also the reference the call returns
GetOrInit_Overwrite(cell, v) == v
GetOrInit(cell, v) == IF cell = 0 THEN v ELSE cell

InitWs ==
    /\ arg = TestDsn
    /\ parse_ok = TRUE
    /\ dsn = arg
    /\ resolved = <<>>
    /\ out = <<>>
    /\ ws_made = FALSE
    /\ slot = [sync |-> 0, async |-> 0]
    /\ built = 0
    /\ call = [t \in Callers |-> Idle]
    /\ executed = {}
    /\ discarded = {}
    /\ first = [sync |-> 0, async |-> 0]
    /\ started = 0
    /\ FfiInit

\* <Ws as FromDsn>::from_dsn, lib.rs:139-147: both cells are OnceCell::new()
WsFromDsn ==
    /\ ~ws_made
    /\ parse_ok
    /\ ws_made' = TRUE
    /\ slot' = [sync |-> 0, async |-> 0]
    /\ UNCHANGED <<built, call, executed, discarded, first, started>>
    /\ UNCHANGED <<dsnVars, ffiVars>>

\* entry of query / exec / async query: `if let Some(ws) = self.<slot>.get()`
\* (lib.rs:160, 171, 193)
Begin(t, op) ==
    /\ ws_made
    /\ call[t].pc = "idle"
    /\ started < MaxCalls
    /\ started' = started + 1
    /\ LET k == KindOf(op)
           g == SlotGet(slot[k])
       IN  call' = [call EXCEPT ![t] =
                [pc   |-> IF IsSome(g) THEN "run" ELSE "build",
                 op   |-> op,
                 kind |-> k,
                 seen |-> slot[k],
                 mine |-> 0,
                 use  |-> IF IsSome(g) THEN Unwrap(g) ELSE 0,
                 made |-> 0,
                 last |-> "none"]]
    /\ UNCHANGED <<ws_made, slot, built, executed, discarded, first>>
    /\ UNCHANGED <<dsnVars, ffiVars>>

\* `WsClient::from_dsn(&self.dsn)?` succeeds (lib.rs:163, 174, 196)
ConstructOk(t) ==
    /\ call[t].pc = "build"
    /\ built' = built + 1
    /\ call' = [call EXCEPT ![t].pc = "publish",
                            ![t].mine = built + 1,
                            ![t].made = call[t].made + 1]
    /\ UNCHANGED <<ws_made, slot, executed, discarded, first, started>>
    /\ UNCHANGED <<dsnVars, ffiVars>>

\* the record of a call whose `WsClient::from_dsn(&self.dsn)?` failed: the
\* `?` returns the error and the call is over
Returned_Retries(c) == [c EXCEPT !.made = c.made + 1]
Returned(c) == [Idle EXCEPT !.made = c.made + 1, !.last = "construct_err"]

\* `WsClient::from_dsn(&self.dsn)?` fails: the `?` returns the error
ConstructErr(t) ==
    /\ call[t].pc = "build"
    /\ call' = [call EXCEPT ![t] = Returned(call[t])]
    /\ UNCHANGED <<ws_made, slot, built, executed, discarded, first, started>>
    /\ UNCHANGED <<dsnVars, ffiVars>>

\* `self.<slot>.get_or_init(|| client)` (lib.rs:164-165, 175-176, 197-198):
\* when the cell is already full the closure, and the transport it owns, is dropped
Publish(t) ==
    /\ call[t].pc = "publish"
    /\ LET k     == call[t].kind
           after == GetOrInit(slot[k], call[t].mine)
       IN  /\ slot' = [slot EXCEPT ![k] = after]
           /\ call' = [call EXCEPT ![t].pc = "run", ![t].use = after]
           /\ discarded' = IF after = call[t].mine THEN discarded
                           ELSE discarded \cup {call[t].mine}
           /\ first' = IF first[k] = 0 THEN [first EXCEPT ![k] = after] ELSE first
    /\ UNCHANGED <<ws_made, built, executed, started>>
    /\ UNCHANGED <<dsnVars, ffiVars>>

\* `.s_query(sql)` / `.s_exec(sql)` on the transport in hand, which succeeds
\* or is rejected (lib.rs:161, 166, 172, 177, 194, 199)
Run(t, outcome) ==
    /\ call[t].pc = "run"
    /\ executed' = executed \cup
            {[op |-> call[t].op, kind |-> call[t].kind,
              transport |-> call[t].use, seen |-> call[t].seen,
              mine |-> call[t].mine, made |-> call[t].made]}
    /\ call' = [call EXCEPT ![t] = [Idle EXCEPT !.made = call[t].made, !.last = outcome]]
    /\ UNCHANGED <<ws_made, slot, built, discarded, first, started>>
    /\ UNCHANGED <<dsnVars, ffiVars>>

NextWs ==
    \/ WsFromDsn
    \/ \E t \in Callers, op \in Ops : Begin(t, op)
    \/ \E t \in Callers : ConstructOk(t)
    \/ \E t \in Callers : ConstructErr(t)
    \/ \E t \in Callers : Publish(t)
    \/ \E t \in Callers, outcome \in {"ok", "statement_err"} : Run(t, outcome)

SpecWs == InitWs /\ [][NextWs]_vars

(***************************************************************************)
(* Properties of the facade, checked under SpecWs.                         *)
(***************************************************************************)
\* C6: under every interleaving of query/exec calls, every statement of the
\* blocking kind is executed on the transport stored in the blocking slot
\* first, which the slot still holds; a caller that lost the race goes on,
\* with no error, to the stored transport, and its own transport is
\* discarded and never executes a statement.
C6_FirstWriterWins ==
    /\ slot.sync = first.sync
    /\ \A e \in executed :
          e.kind = "sync" => e.transport # 0 /\ e.transport = first.sync
    /\ \A e \in executed : e.transport \notin discarded
    /\ \A t \in Callers :
          call[t].kind = "sync" /\ call[t].pc = "run" =>
              /\ call[t].use = first.sync
              /\ call[t].use # 0
              /\ call[t].last = "none"
              /\ call[t].mine # 0 /\ call[t].mine # call[t].use
                    => call[t].mine \in discarded
\* a caller that built transport 2 and lost the race ran its statement on 1
C6_Witness ==
    /\ first.sync = 1
    /\ 2 \in discarded
    /\ \E e \in executed :
          e.kind = "sync" /\ e.mine = 2 /\ e.transport = 1 /\ e.seen = 0

\* C7: Ws::from_dsn constructs no transport and leaves both slots empty (so
\* nothing is built or stored before the first call begins); a call that
\* finds its slot filled at entry constructs nothing and executes on the
\* transport it found.
C7_LazyAndReused ==
    /\ started = 0 => built = 0 /\ slot = [sync |-> 0, async |-> 0]
    /\ \A t \in Callers :
          call[t].pc # "idle" /\ call[t].seen # 0 =>
              /\ call[t].pc = "run"
              /\ call[t].made = 0
              /\ call[t].mine = 0
              /\ call[t].use = call[t].seen
    /\ \A e \in executed :
          e.seen # 0 => e.made = 0 /\ e.transport = e.seen /\ e.transport = slot[e.kind]
\* a second call found the blocking slot filled and ran on it; one transport exists
C7_Witness ==
    /\ ws_made
    /\ built = 1
    /\ \E e \in executed : e.seen = 1 /\ e.made = 0 /\ e.transport = 1 /\ e.op = "exec"

\* C20: each transport slot of a facade is written once at most.  Whatever
\* the interleaving of query, exec and asynchronous query calls, a step
\* that finds a transport in a slot leaves that transport in it: the slot
\* neither changes nor becomes empty.
C20_SlotWrittenOnce ==
    [][\A k \in {"sync", "async"} : slot[k] # 0 => slot'[k] = slot[k]]_vars
\* both slots are filled, and a caller has published into a slot that was
\* already filled: its transport was discarded
C20_Witness ==
    /\ slot.sync # 0
    /\ slot.async # 0
    /\ discarded # {}
    /\ \E e \in executed : e.mine # 0 /\ e.transport # e.mine

\* C21: a call whose construction of the transport fails has made one
\* attempt, returns the construction error, executes nothing, builds nothing
\* and does not write the slot it found empty; and every call that finds its
\* slot empty at entry, a later call on the same facade among them, goes on
\* to attempt construction.
C21_FailedConstruction ==
    [][\A t \in Callers :
          /\ (call[t].pc = "build" /\ call'[t] # call[t]) =>
                /\ call[t].seen = 0
                /\ call[t].made = 0
                /\ call'[t].made = 1
                /\ call'[t].pc \in {"publish", "idle"}
                /\ call'[t].pc = "idle" =>
                      /\ call'[t].last = "construct_err"
                      /\ slot' = slot
                      /\ built' = built
                      /\ executed' = executed
                      /\ discarded' = discarded
          /\ (call[t].pc = "idle" /\ call'[t].pc # "idle") =>
                (call'[t].pc = "build") = (slot[call'[t].kind] = 0)]_vars
\* a call failed to construct and returned; nothing ran and the slots are empty
C21_Witness ==
    /\ \E t \in Callers :
          call[t].pc = "idle" /\ call[t].last = "construct_err" /\ call[t].made = 1
    /\ slot = [sync |-> 0, async |-> 0]
    /\ executed = {}
    /\ built = 0
\* after a failed construction another call built a transport and ran on it
C21_WitnessAgain ==
    /\ \E t \in Callers :
          call[t].pc = "idle" /\ call[t].last = "construct_err"
    /\ \E e \in executed : e.seen = 0 /\ e.made = 1 /\ e.transport = 1
    /\ started = 2

(***************************************************************************)
(* SpecFfi: the C boundary, taos-ws-sys/src/lib.rs.  A handle is the       *)
(* address of a box on the heap; NULL is 0.  The transport (WsClient,      *)
(* taos_ws::sync) is outside these sources: what it answers to an open or  *)
(* to a statement is chosen by the environment among success and the       *)
(* errors of TransportErrors.                                              *)
(***************************************************************************)
\* number of heap addresses a handle can be allocated at
HeapSize == 3
\* number of allocating or releasing boundary calls in one run
MaxFfiCalls == 3

NULL == 0
Addresses == 1..HeapSize
\* taos_error::Code::Failed as an i32
Code_Failed == 65535
\* the empty C string, lib.rs:20
EMPTY == ""

\* what the transport reports on failure: Error::errno() and Error::errstr()
TransportErrors ==
    {[errno |-> 11,   errstr |-> "Unable to establish connection"],
     [errno |-> 9728, errstr |-> "Incomplete SQL statement"]}
\* what WsClient::from_dsn reports for a descriptor it cannot resolve
DescriptorErrors ==
    {[errno |-> Code_Failed, errstr |-> "invalid driver"]}
\* texts with an interior nul byte; the transport reports none
TextsWithNul == {}
\* Display of a std::str::Utf8Error
Utf8ErrorText == "invalid utf-8 sequence of 1 bytes from index 0"
\* the C strings a caller passes: one that is not UTF-8, and valid ones
BadUtf8 == "<not utf-8>"
DsnStrings == {BadUtf8, "ws://localhost:6041"}
SqlStrings == {BadUtf8, "show databases"}

\* the outcome of a panic inside a boundary function
Panic == "<panic>"
\* CString::new(message).unwrap(): panics on an interior nul byte
CStringNew(message) == IF message \in TextsWithNul THEN Panic ELSE message

Ok(v)  == [ok |-> TRUE, val |-> v]
Err(e) == [ok |-> FALSE, err |-> e]

\* CStr::to_str, lib.rs:293, 332
ToStr(cstr) == IF cstr = BadUtf8 THEN Err("Utf8Error") ELSE Ok(cstr)

\* WsError::new, lib.rs:38-44: the code argument is not used
WsError_new(code, message) ==
    [code |-> Code_Failed, message |-> CStringNew(message)]
\* impl From<Utf8Error> for WsError, lib.rs:58-66
WsError_from_utf8(e) ==
    [code |-> Code_Failed, message |-> CStringNew(Utf8ErrorText)]
\* impl From<Error> for WsError, lib.rs:68-76
WsError_from_error_Failed(e) ==
    [code |-> Code_Failed, message |-> CStringNew(e.errstr)]
WsError_from_error(e) ==
    [code |-> e.errno, message |-> CStringNew(e.errstr)]
\* impl From<&WsError> for WsError, lib.rs:77-85
WsError_from_ref_Failed(e) ==
    [code |-> Code_Failed, message |-> e.message]
WsError_from_ref(e) ==
    [code |-> e.code, message |-> e.message]

(***************************************************************************)
(* The transport's result set (taos_ws::sync::ResultSet, outside these     *)
(* sources): a schema, a time precision, an affected-row count and the row *)
(* blocks still to come.  `serial` tells the result sets of a run apart;   *)
(* block i of result set s is the object <<s, i>>.                         *)
(***************************************************************************)
\* most columns of a schema
MaxCols == 2
\* most row blocks of a result set
MaxBlocks == 2
\* most rows of a block
MaxRows == 2

\* Ty::Null as u8
Ty_Null == 0
\* the columns of the table the schemas are taken from: the bytes of the
\* name, Ty as u8, and the width in bytes
TableColumns ==
    <<[name |-> <<116, 115>>, ty |-> 9,  bytes |-> 8],       \* ts TIMESTAMP
      [name |-> <<99, 49>>,   ty |-> 8,  bytes |-> 100],     \* c1 VARCHAR(100)
      [name |-> <<99, 50>>,   ty |-> 10, bytes |-> 70000],   \* c2 NCHAR, 70000 bytes
      [name |-> <<118>>,      ty |-> 4,  bytes |-> 4]>>      \* v  INT
Schemas == {SubSeq(TableColumns, 1, n) : n \in 0..MaxCols}
Precisions == {"Millisecond", "Microsecond", "Nanosecond"}
\* Precision as i32
PrecisionAsI32(p) ==
    CASE p = "Millisecond" -> 0
      [] p = "Microsecond" -> 1
      [] p = "Nanosecond"  -> 2
\* the row counts of the blocks of a result set: every block has rows, full
\* blocks and one-row blocks alternate
RowsOfBlock(i) == IF i % 2 = 1 THEN MaxRows ELSE 1
BlockRows == {[i \in 1..k |-> RowsOfBlock(i)] : k \in 0..MaxBlocks}
\* a statement is a query with a precision or a write that affects rows
Outcomes ==
    {[precision |-> "Millisecond", affected_rows |-> 0],
     [precision |-> "Microsecond", affected_rows |-> 3],
     [precision |-> "Nanosecond",  affected_rows |-> 0]}

\* what s_query hands back for a statement it accepts
TransportResults ==
    {[fields |-> f, precision |-> o.precision, affected_rows |-> o.affected_rows,
      rows |-> r, pos |-> 0, serial |-> 0] : f \in Schemas, o \in Outcomes, r \in BlockRows}
\* the result of `show databases` in a small deployment
SmallResult ==
    [fields |-> SubSeq(TableColumns, 1, 1), precision |-> "Millisecond",
     affected_rows |-> 0, rows |-> <<1>>, pos |-> 0, serial |-> 0]

\* ResultSet::num_of_fields, ResultSet::fields, ResultSet::precision,
\* ResultSet::affected_rows
rs_num_of_fields(rs) == Len(rs.fields)
rs_fields(rs) == rs.fields
rs_precision(rs) == rs.precision
rs_affected_rows(rs) == rs.affected_rows
\* block i of a result set
BlockOf(rs, i) ==
    [id |-> <<rs.serial, i>>, nrows |-> rs.rows[i], ncols |-> Len(rs.fields),
     tys |-> [c \in 1..Len(rs.fields) |-> rs.fields[c].ty],
     lens |-> [c \in 1..Len(rs.fields) |-> rs.fields[c].bytes]]
\* Iterator::next on the result set: the next block and the result set after it
rs_next(rs) ==
    IF rs.pos < Len(rs.rows)
    THEN [block |-> Some(BlockOf(rs, rs.pos + 1)), rs |-> [rs EXCEPT !.pos = rs.pos + 1]]
    ELSE [block |-> None, rs |-> rs]
\* Block::nrows, Block::ncols
nrows(block) == block.nrows
ncols(block) == block.ncols
\* the address of a block's bytes; the null pointer is the empty tuple
NullPtr == <<>>
as_ptr(block) == block.id
\* RawBlock::get_raw_value_unchecked(row, col), for a cell inside the block
get_raw_value_unchecked(block, row, col) ==
    [ty |-> block.tys[col + 1], len |-> block.lens[col + 1],
     ptr |-> <<block.id[1], block.id[2], row, col>>]
\* the transport's answer, stamped with the serial of the result set
Stamp(reply, serial) ==
    IF reply.ok THEN Ok([reply.val EXCEPT !.serial = serial]) ELSE reply

Free == [tag |-> "free"]
\* Box<WsTaos>, lib.rs:97
TaosBox(r) == [tag |-> "taos", val |-> r]
\* WsResultSet::new, lib.rs:189-196.  `rebuilds` counts, for each of the two
\* Vecs, the times it was cleared and refilled (lib.rs:238-239, 252-254).
WsResultSet_new(rs) ==
    [tag |-> "res", rs |-> rs, block |-> None, fields |-> <<>>, fields_v2 |-> <<>>,
     rebuilds |-> [fields |-> 0, fields_v2 |-> 0]]

FreeAddrs(h) == {a \in Addresses : h[a].tag = "free"}
Live(h, tag) == {a \in Addresses : h[a].tag = tag}
\* whether a Result<_, WsError> carries a message whose construction panicked
Panicked(r) == ~r.ok /\ r.err.message = Panic

\* connect_with_dsn, lib.rs:292-295.  `open` is the answer of
\* WsClient::from_dsn, asked only for a UTF-8 descriptor; `id` names the
\* session it opens.
connect_with_dsn_Unwrap(dsnstr, open, id) ==
    IF ~ToStr(dsnstr).ok THEN Err([code |-> Code_Failed, message |-> Panic])
    ELSE IF open.ok THEN Ok(id)
    ELSE Err(WsError_from_error(open.err))
connect_with_dsn(dsnstr, open, id) ==
    LET str == ToStr(dsnstr)
    IN  IF ~str.ok THEN Err(WsError_from_utf8(str.err))
        ELSE IF open.ok THEN Ok(id)
        ELSE Err(WsError_from_error(open.err))

\* query_with_sql, lib.rs:326-335.  `reply` is the answer of s_query, asked
\* only on a live session with a UTF-8 statement.  The result also tells
\* whether the transport was asked.
query_with_sql_NullIsEmpty(h, taos, sql, reply) ==
    IF taos = NULL
    THEN [res |-> Ok([fields |-> <<>>, precision |-> "Millisecond", affected_rows |-> 0,
                      rows |-> <<>>, pos |-> 0, serial |-> 0]),
          asked |-> FALSE]
    ELSE IF ~h[taos].val.ok
    THEN [res |-> Err(WsError_from_ref(h[taos].val.err)), asked |-> FALSE]
    ELSE LET str == ToStr(sql)
         IN  IF ~str.ok
             THEN [res |-> Err(WsError_from_utf8(str.err)), asked |-> FALSE]
             ELSE IF reply.ok
             THEN [res |-> Ok(reply.val), asked |-> TRUE]
             ELSE [res |-> Err(WsError_from_error(reply.err)), asked |-> TRUE]
query_with_sql(h, taos, sql, reply) ==
    IF taos = NULL
    THEN [res |-> Err(WsError_new(Code_Failed, "client pointer it null")), asked |-> FALSE]
    ELSE IF ~h[taos].val.ok
    THEN [res |-> Err(WsError_from_ref(h[taos].val.err)), asked |-> FALSE]
    ELSE LET str == ToStr(sql)
         IN  IF ~str.ok
             THEN [res |-> Err(WsError_from_utf8(str.err)), asked |-> FALSE]
             ELSE IF reply.ok
             THEN [res |-> Ok(reply.val), asked |-> TRUE]
             ELSE [res |-> Err(WsError_from_error(reply.err)), asked |-> TRUE]

\* ws_connect_errno, lib.rs:303-309
ws_connect_errno(h, taos) ==
    IF taos = NULL THEN 0
    ELSE IF h[taos].val.ok THEN 0
    ELSE h[taos].val.err.code
\* ws_connect_errstr, lib.rs:311-318
ws_connect_errstr(h, taos) ==
    IF taos = NULL THEN EMPTY
    ELSE IF h[taos].val.ok THEN EMPTY
    ELSE h[taos].val.err.message
\* WsResultSet::errno, lib.rs:197-202
errno(rs) == IF rs.rs.ok THEN 0 ELSE rs.rs.err.code
\* WsResultSet::errstr, lib.rs:203-209
errstr(rs) == IF rs.rs.ok THEN EMPTY ELSE rs.rs.err.message
\* ws_query_errno, lib.rs:348-353
ws_query_errno(h, rs) == IF rs = NULL THEN 0 ELSE errno(h[rs])
\* ws_query_errstr, lib.rs:357-362
ws_query_errstr(h, rs) == IF rs = NULL THEN EMPTY ELSE errstr(h[rs])

(***************************************************************************)
(* The column descriptors, lib.rs:102-179.                                 *)
(***************************************************************************)
\* [c_char; 65usize], lib.rs:105 and lib.rs:140
NameBufLen == 65
\* the count of copy_nonoverlapping, lib.rs:127 and lib.rs:172: f_name.len()
CopyCount(f_name) == Len(f_name)
\* the bytes the copy writes past the end of the buffer
WrittenPast(f_name) ==
    IF CopyCount(f_name) > NameBufLen THEN CopyCount(f_name) - NameBufLen ELSE 0
\* [0; 65] with the bytes of the name copied to its front, lib.rs:126-127:
\* what the 65 bytes of the buffer hold after the copy
NameBuffer(f_name) ==
    [i \in 1..NameBufLen |-> IF i <= Len(f_name) THEN f_name[i] ELSE 0]
\* the buffer has a 0 byte, so that a C string read from it ends inside it
NulTerminated(buf) == \E k \in 1..NameBufLen : buf[k] = 0
\* the k bytes of an unsigned integer in memory, least significant first
LeBytes(n, k) == [i \in 1..k |-> (n \div 256 ^ (i - 1)) % 256]
\* a byte the program never writes holds any value
AnyByte == 0..255
\* the bytes of a WS_FIELD_V2 in memory, #[repr(C)], lib.rs:101-108: the name
\* at offset 0, the type at 65, the width at 66 and 67
Memory_V2(e) == e.name \o <<e.type>> \o LeBytes(e.bytes, 2)
\* the bytes of a WS_FIELD in memory, #[repr(C)], lib.rs:137-143: the name at
\* offset 0, the type at 65, two bytes of padding, the width at 68 to 71
Memory(e, pad) == e.name \o <<e.type>> \o pad \o LeBytes(e.bytes, 4)
\* CStr::from_ptr, lib.rs:112 and lib.rs:147, on the memory that starts with
\* the name buffer: the bytes before the first 0, wherever that is.  The read
\* does not stop at the end of the buffer; `off` says that it left the entry
\* without meeting a 0 and went on in memory the entry does not describe.
CStrFrom(mem, i) ==
    LET zeros == {k \in i..Len(mem) : mem[k] = 0}
    IN  IF zeros = {}
        THEN [bytes |-> SubSeq(mem, i, Len(mem)), off |-> TRUE]
        ELSE LET nul == CHOOSE k \in zeros : \A z \in zeros : k <= z
             IN  [bytes |-> SubSeq(mem, i, nul - 1), off |-> FALSE]
\* a name read as a C string that ended where it should
CStrOf(bytes) == [bytes |-> bytes, off |-> FALSE]
\* WS_FIELD_V2::name, lib.rs:111-113: the results the call can have.  On a
\* buffer without a 0 byte the read runs on into the type and the width.
WS_FIELD_V2_name(e) == {CStrFrom(Memory_V2(e), 1)}
\* WS_FIELD::name, lib.rs:146-148: the results the call can have.  On a buffer
\* without a 0 byte the read runs on into the type, the padding, whose bytes
\* are not determined, and the width.
WS_FIELD_name(e) ==
    IF NulTerminated(e.name)
    THEN {CStrFrom(e.name, 1)}
    ELSE {CStrFrom(Memory(e, pad), 1) : pad \in [1..2 -> AnyByte]}
\* u32 as u16, lib.rs:131
AsU16_Saturating(n) == IF n > 65535 THEN 65535 ELSE n
AsU16(n) == n % 65536
\* impl From<&Field> for WS_FIELD_V2, lib.rs:123-134
WS_FIELD_V2_from_TypeLost(field) ==
    [name |-> NameBuffer(field.name), type |-> Ty_Null, bytes |-> AsU16(field.bytes)]
WS_FIELD_V2_from(field) ==
    [name |-> NameBuffer(field.name), type |-> field.ty, bytes |-> AsU16(field.bytes)]
\* impl From<&Field> for WS_FIELD, lib.rs:168-179
WS_FIELD_from(field) ==
    [name |-> NameBuffer(field.name), type |-> field.ty, bytes |-> field.bytes]

(***************************************************************************)
(* The methods of WsResultSet, lib.rs:211-289.  A method that takes        *)
(* &mut self yields the object after the call with its return value.       *)
(***************************************************************************)
\* WsResultSet::precision, lib.rs:211-216
precision(o) == IF o.rs.ok THEN rs_precision(o.rs.val) ELSE "Millisecond"
\* WsResultSet::affected_rows, lib.rs:218-223
affected_rows(o) == IF o.rs.ok THEN rs_affected_rows(o.rs.val) ELSE 0
\* WsResultSet::num_of_fields, lib.rs:225-230
num_of_fields(o) == IF o.rs.ok THEN rs_num_of_fields(o.rs.val) ELSE 0
\* a pointer to a Vec's elements is modelled by the elements it points at
PtrTo(array) == <<array>>
\* WsResultSet::get_fields, lib.rs:232-245
get_fields_Eager(o) ==
    LET fs == IF o.rs.ok
              THEN [i \in 1..Len(rs_fields(o.rs.val)) |-> WS_FIELD_from(rs_fields(o.rs.val)[i])]
              ELSE <<WS_FIELD_from(TableColumns[1])>>
    IN  [obj |-> [o EXCEPT !.fields = fs,
                           !.rebuilds.fields = o.rebuilds.fields + 1],
         ptr |-> PtrTo(fs)]
get_fields_Always(o) ==
    IF o.rs.ok
    THEN LET fs == [i \in 1..Len(rs_fields(o.rs.val)) |->
                       WS_FIELD_from(rs_fields(o.rs.val)[i])]
         IN  [obj |-> [o EXCEPT !.fields = fs,
                                !.rebuilds.fields = o.rebuilds.fields + 1],
              ptr |-> PtrTo(fs)]
    ELSE [obj |-> o, ptr |-> NullPtr]
get_fields(o) ==
    IF o.rs.ok
    THEN IF Len(o.fields) = rs_num_of_fields(o.rs.val)
         THEN [obj |-> o, ptr |-> PtrTo(o.fields)]
         ELSE LET fs == [i \in 1..Len(rs_fields(o.rs.val)) |->
                            WS_FIELD_from(rs_fields(o.rs.val)[i])]
              IN  [obj |-> [o EXCEPT !.fields = fs,
                                     !.rebuilds.fields = o.rebuilds.fields + 1],
                   ptr |-> PtrTo(fs)]
    ELSE [obj |-> o, ptr |-> NullPtr]
\* WsResultSet::get_fields_v2, lib.rs:246-260
get_fields_v2(o) ==
    IF o.rs.ok
    THEN IF Len(o.fields_v2) = rs_num_of_fields(o.rs.val)
         THEN [obj |-> o, ptr |-> PtrTo(o.fields_v2)]
         ELSE LET fs == [i \in 1..Len(rs_fields(o.rs.val)) |->
                            WS_FIELD_V2_from(rs_fields(o.rs.val)[i])]
              IN  [obj |-> [o EXCEPT !.fields_v2 = fs,
                                     !.rebuilds.fields_v2 = o.rebuilds.fields_v2 + 1],
                   ptr |-> PtrTo(fs)]
    ELSE [obj |-> o, ptr |-> NullPtr]
\* WsResultSet::fetch_block, lib.rs:262-276.  `params` is what *ptr and *rows
\* hold before the call; the result tells what they hold after it.
fetch_block_ErrAtEnd(o, params) ==
    IF o.rs.ok
    THEN LET n == rs_next(o.rs.val)
         IN  IF IsSome(n.block)
             THEN [obj |-> [o EXCEPT !.rs = Ok(n.rs), !.block = n.block], code |-> 0,
                   params |-> [ptr |-> as_ptr(Unwrap(n.block)),
                               rows |-> nrows(Unwrap(n.block))]]
             ELSE [obj |-> [o EXCEPT !.rs = Err(WsError_new(Code_Failed, "no more data")),
                                     !.block = None],
                   code |-> 0, params |-> [params EXCEPT !.rows = 0]]
    ELSE [obj |-> o, code |-> o.rs.err.code, params |-> params]
fetch_block_KeepsAtEnd(o, params) ==
    IF o.rs.ok
    THEN LET n == rs_next(o.rs.val)
         IN  IF IsSome(n.block)
             THEN [obj |-> [o EXCEPT !.rs = Ok(n.rs), !.block = n.block], code |-> 0,
                   params |-> [ptr |-> as_ptr(Unwrap(n.block)),
                               rows |-> nrows(Unwrap(n.block))]]
             ELSE [obj |-> [o EXCEPT !.rs = Ok(n.rs)], code |-> 0,
                   params |-> [params EXCEPT !.rows = 0]]
    ELSE [obj |-> o, code |-> o.rs.err.code, params |-> params]
fetch_block_StaleRows(o, params) ==
    IF o.rs.ok
    THEN LET n  == rs_next(o.rs.val)
             o2 == [o EXCEPT !.rs = Ok(n.rs), !.block = n.block]
         IN  IF IsSome(n.block)
             THEN [obj |-> o2, code |-> 0,
                   params |-> [ptr |-> as_ptr(Unwrap(n.block)),
                               rows |-> nrows(Unwrap(n.block))]]
             ELSE [obj |-> o2, code |-> 0, params |-> params]
    ELSE [obj |-> o, code |-> o.rs.err.code, params |-> params]
fetch_block_ClearsOnError(o, params) ==
    IF o.rs.ok
    THEN LET n  == rs_next(o.rs.val)
             o2 == [o EXCEPT !.rs = Ok(n.rs), !.block = n.block]
         IN  IF IsSome(n.block)
             THEN [obj |-> o2, code |-> 0,
                   params |-> [ptr |-> as_ptr(Unwrap(n.block)),
                               rows |-> nrows(Unwrap(n.block))]]
             ELSE [obj |-> o2, code |-> 0, params |-> [params EXCEPT !.rows = 0]]
    ELSE [obj |-> o, code |-> o.rs.err.code, params |-> [ptr |-> NullPtr, rows |-> 0]]
fetch_block(o, params) ==
    IF o.rs.ok
    THEN LET n  == rs_next(o.rs.val)
             o2 == [o EXCEPT !.rs = Ok(n.rs), !.block = n.block]
         IN  IF IsSome(n.block)
             THEN [obj |-> o2, code |-> 0,
                   params |-> [ptr |-> as_ptr(Unwrap(n.block)),
                               rows |-> nrows(Unwrap(n.block))]]
             ELSE [obj |-> o2, code |-> 0, params |-> [params EXCEPT !.rows = 0]]
    ELSE [obj |-> o, code |-> o.rs.err.code, params |-> params]

\* A usize is kept as its four 16-bit limbs, most significant first.
Limb == 65536
\* a small count as usize
Usize(n) == <<0, 0, n \div Limb, n % Limb>>
\* i32 as usize, lib.rs:455: sign extension to 64 bits
I32AsUsize(i) ==
    IF i >= 0 THEN Usize(i)
    ELSE <<Limb - 1, Limb - 1,
           ((i + 2147483647) + 1) \div Limb + Limb \div 2,
           ((i + 2147483647) + 1) % Limb>>
\* a < b on usize
UsizeLess(a, b) ==
    \E k \in 1..4 : a[k] < b[k] /\ \A j \in 1..(k - 1) : a[j] = b[j]
\* (Ty::Null, 0, std::ptr::null()), lib.rs:284
NullValue == [ty |-> Ty_Null, len |-> 0, ptr |-> NullPtr]
\* WsResultSet::get_raw_value, lib.rs:278-289, on the i32 coordinates of the
\* caller cast to usize.  An in-range coordinate is its own low limb.
get_raw_value_OffByOne(o, row, col) ==
    IF IsSome(o.block)
    THEN LET block == Unwrap(o.block)
         IN  IF UsizeLess(I32AsUsize(row), Usize(nrows(block) + 1))
                /\ UsizeLess(I32AsUsize(col), Usize(ncols(block)))
             THEN get_raw_value_unchecked(block, row, col)
             ELSE NullValue
    ELSE NullValue
get_raw_value(o, row, col) ==
    IF IsSome(o.block)
    THEN LET block == Unwrap(o.block)
         IN  IF UsizeLess(I32AsUsize(row), Usize(nrows(block)))
                /\ UsizeLess(I32AsUsize(col), Usize(ncols(block)))
             THEN get_raw_value_unchecked(block, row, col)
             ELSE NullValue
    ELSE NullValue

\* ws_affected_rows, lib.rs:366-371
ws_affected_rows(h, rs) == IF rs = NULL THEN 0 ELSE affected_rows(h[rs])
\* ws_num_of_fields, lib.rs:375-380
ws_num_of_fields(h, rs) == IF rs = NULL THEN 0 ELSE num_of_fields(h[rs])
\* ws_result_precision, lib.rs:422-427
ws_result_precision(h, rs) == IF rs = NULL THEN 0 ELSE PrecisionAsI32(precision(h[rs]))
\* ws_fetch_fields, lib.rs:384-389: the heap after the call and the pointer
ws_fetch_fields(h, rs) ==
    IF rs = NULL THEN [heap |-> h, ptr |-> NullPtr]
    ELSE LET r == get_fields(h[rs])
         IN  [heap |-> [h EXCEPT ![rs] = r.obj], ptr |-> r.ptr]
\* ws_fetch_fields_v2, lib.rs:393-398
ws_fetch_fields_v2(h, rs) ==
    IF rs = NULL THEN [heap |-> h, ptr |-> NullPtr]
    ELSE LET r == get_fields_v2(h[rs])
         IN  [heap |-> [h EXCEPT ![rs] = r.obj], ptr |-> r.ptr]
\* ws_fetch_block, lib.rs:401-413
ws_fetch_block_NullKeepsRows(h, rs, params) ==
    IF rs = NULL THEN [heap |-> h, code |-> 0, params |-> params]
    ELSE LET r == fetch_block(h[rs], params)
         IN  [heap |-> [h EXCEPT ![rs] = r.obj], code |-> r.code, params |-> r.params]
ws_fetch_block(h, rs, params) ==
    IF rs = NULL THEN [heap |-> h, code |-> 0, params |-> [params EXCEPT !.rows = 0]]
    ELSE LET r == fetch_block(h[rs], params)
         IN  [heap |-> [h EXCEPT ![rs] = r.obj], code |-> r.code, params |-> r.params]
\* ws_get_value_in_block, lib.rs:446-466: the pointer returned with *ty and *len
ws_get_value_in_block(h, rs, row, col) ==
    IF rs = NULL THEN NullValue ELSE get_raw_value(h[rs], row, col)

\* the caller's block pointer and row count before any fetch (tests::connect,
\* lib.rs:583-584)
NoOut == [ptr |-> NullPtr, rows |-> 0]
NoCall == [op |-> "none", h |-> NULL, arg |-> "", at |-> <<>>, env |-> Ok(0),
           val |-> 0, panic |-> FALSE]

InitFfi ==
    /\ arg = TestDsn
    /\ parse_ok = TRUE
    /\ dsn = arg
    /\ resolved = <<>>
    /\ out = <<>>
    /\ WsInit
    /\ heap = [a \in Addresses |-> Free]
    /\ ret = NoCall
    /\ sent = <<>>
    /\ clients = 0
    /\ outp = NoOut
    /\ ncalls = 0

\* what WsClient::from_dsn may answer: a session, a descriptor error or a
\* transport error
OpenAnswers == {Ok(0)} \cup {Err(e) : e \in TransportErrors \cup DescriptorErrors}
\* what s_query may answer: a result set or a transport error
QueryAnswers == {Ok(SmallResult)} \cup {Err(e) : e \in TransportErrors}

\* ws_connect_with_dsn, lib.rs:297-300: the result, whatever it is, is boxed
WsConnectWithDsn(dsnstr, open) ==
    /\ ncalls < MaxFfiCalls
    /\ ncalls' = ncalls + 1
    /\ LET r == connect_with_dsn(dsnstr, open, clients + 1)
       IN  IF Panicked(r)
           THEN /\ ret' = [op |-> "ws_connect_with_dsn", h |-> NULL, arg |-> dsnstr,
                           at |-> <<>>, env |-> open, val |-> NULL, panic |-> TRUE]
                /\ UNCHANGED <<heap, clients>>
           ELSE \E a \in FreeAddrs(heap) :
                /\ heap' = [heap EXCEPT ![a] = TaosBox(r)]
                /\ clients' = IF r.ok THEN clients + 1 ELSE clients
                /\ ret' = [op |-> "ws_connect_with_dsn", h |-> NULL, arg |-> dsnstr,
                           at |-> <<>>, env |-> open, val |-> a, panic |-> FALSE]
    /\ UNCHANGED <<sent, outp>>
    /\ UNCHANGED <<dsnVars, wsVars>>

\* ws_query, lib.rs:341-344: the result, whatever it is, is boxed
WsQuery(taos, sql, reply) ==
    /\ ncalls < MaxFfiCalls
    /\ ncalls' = ncalls + 1
    /\ LET q == query_with_sql(heap, taos, sql, Stamp(reply, Len(sent) + 1))
       IN  /\ sent' = IF q.asked THEN Append(sent, <<heap[taos].val.val, sql>>) ELSE sent
           /\ IF Panicked(q.res)
              THEN /\ ret' = [op |-> "ws_query", h |-> taos, arg |-> sql,
                              at |-> <<>>, env |-> reply, val |-> NULL, panic |-> TRUE]
                   /\ UNCHANGED heap
              ELSE \E a \in FreeAddrs(heap) :
                   /\ heap' = [heap EXCEPT ![a] = WsResultSet_new(q.res)]
                   /\ ret' = [op |-> "ws_query", h |-> taos, arg |-> sql,
                              at |-> <<>>, env |-> reply, val |-> a, panic |-> FALSE]
    /\ UNCHANGED <<clients, outp>>
    /\ UNCHANGED <<dsnVars, wsVars>>

\* an accessor: reads the heap and returns a value
Accessor(op, h, value) ==
    /\ ret' = [op |-> op, h |-> h, arg |-> "", at |-> <<>>, env |-> Ok(0),
               val |-> value, panic |-> FALSE]
    /\ UNCHANGED <<heap, sent, clients, outp, ncalls>>
    /\ UNCHANGED <<dsnVars, wsVars>>

WsConnectErrno(taos)  == Accessor("ws_connect_errno", taos, ws_connect_errno(heap, taos))
WsConnectErrstr(taos) == Accessor("ws_connect_errstr", taos, ws_connect_errstr(heap, taos))
WsQueryErrno(rs)      == Accessor("ws_query_errno", rs, ws_query_errno(heap, rs))
WsQueryErrstr(rs)     == Accessor("ws_query_errstr", rs, ws_query_errstr(heap, rs))

\* drop(Box::from_raw(a)), lib.rs:323, 417: the box at `a` is released with
\* all it owns; a session box owns no result set
DropBox_Cascade(h, a) ==
    [b \in Addresses |-> IF b = a \/ (h[a].tag = "taos" /\ h[b].tag = "res")
                         THEN Free ELSE h[b]]
DropBox(h, a) == [h EXCEPT ![a] = Free]

\* ws_close, lib.rs:322-324, and ws_free_result, lib.rs:416-418: the box is dropped
Release(op, h) ==
    /\ ncalls < MaxFfiCalls
    /\ ncalls' = ncalls + 1
    /\ heap' = DropBox(heap, h)
    /\ ret' = [op |-> op, h |-> h, arg |-> "", at |-> <<>>, env |-> Ok(0),
               val |-> 0, panic |-> FALSE]
    /\ UNCHANGED <<sent, clients, outp>>
    /\ UNCHANGED <<dsnVars, wsVars>>

WsClose(taos)    == Release("ws_close", taos)
WsFreeResult(rs) == Release("ws_free_result", rs)

\* A caller passes NULL or a handle it holds, of the type the function takes.
NextFfi ==
    \/ \E d \in DsnStrings, open \in OpenAnswers : WsConnectWithDsn(d, open)
    \/ \E taos \in Live(heap, "taos") \cup {NULL}, sql \in SqlStrings, reply \in QueryAnswers :
          WsQuery(taos, sql, reply)
    \/ \E taos \in Live(heap, "taos") \cup {NULL} : WsConnectErrno(taos)
    \/ \E taos \in Live(heap, "taos") \cup {NULL} : WsConnectErrstr(taos)
    \/ \E rs \in Live(heap, "res") \cup {NULL} : WsQueryErrno(rs)
    \/ \E rs \in Live(heap, "res") \cup {NULL} : WsQueryErrstr(rs)
    \/ \E taos \in Live(heap, "taos") : WsClose(taos)
    \/ \E rs \in Live(heap, "res") : WsFreeResult(rs)

SpecFfi == InitFfi /\ [][NextFfi]_vars

(***************************************************************************)
(* One result-set handle in detail: the state after a ws_connect_with_dsn  *)
(* and a ws_query, then any calls on the result-set handle up to its       *)
(* release.                                                                *)
(***************************************************************************)
\* what s_query may answer here: any result set or a transport error
RsAnswers == {Ok(rs) : rs \in TransportResults} \cup {Err(e) : e \in TransportErrors}
\* the heap after ws_connect_with_dsn(dsnstr) put its box at address 1
HeapAfterConnect(dsnstr, open) ==
    [a \in Addresses |-> IF a = 1 THEN TaosBox(connect_with_dsn(dsnstr, open, 1)) ELSE Free]
\* the heap after ws_query(taos, sql) then put its box at address 2
HeapAfterQuery(dsnstr, open, taos, sql, reply) ==
    LET h == HeapAfterConnect(dsnstr, open)
    IN  [h EXCEPT ![2] = WsResultSet_new(query_with_sql(h, taos, sql, Stamp(reply, 1)).res)]

InitRs ==
    /\ arg = TestDsn
    /\ parse_ok = TRUE
    /\ dsn = arg
    /\ resolved = <<>>
    /\ out = <<>>
    /\ WsInit
    /\ \E dsnstr \in DsnStrings, open \in OpenAnswers, taos \in {1, NULL},
          sql \in SqlStrings, reply \in RsAnswers :
          LET h == HeapAfterConnect(dsnstr, open)
              q == query_with_sql(h, taos, sql, Stamp(reply, 1))
          IN  /\ heap = HeapAfterQuery(dsnstr, open, taos, sql, reply)
              /\ sent = IF q.asked THEN <<<<h[taos].val.val, sql>>>> ELSE <<>>
              /\ clients = IF h[1].val.ok THEN 1 ELSE 0
    /\ ret = NoCall
    /\ outp = NoOut
    /\ ncalls = 0

\* the coordinates a caller passes: around the edges of a block and at the
\* ends of i32
I32Max == 2147483647
I32Min == -I32Max - 1
RowCoordinates == {-1, 0, MaxRows - 1, MaxRows, I32Min, I32Max}
ColCoordinates == {-1, 0, MaxCols - 1, MaxCols, I32Min, I32Max}

WsAffectedRows(rs)    == Accessor("ws_affected_rows", rs, ws_affected_rows(heap, rs))
WsNumOfFields(rs)     == Accessor("ws_num_of_fields", rs, ws_num_of_fields(heap, rs))
WsResultPrecision(rs) == Accessor("ws_result_precision", rs, ws_result_precision(heap, rs))

\* a call that may write to the result-set object: it leaves the object as
\* the method left it and returns the method's value
Mutator(op, h, after, value) ==
    /\ heap' = after
    /\ ret' = [op |-> op, h |-> h, arg |-> "", at |-> <<>>, env |-> Ok(0),
               val |-> value, panic |-> FALSE]
    /\ UNCHANGED <<sent, clients, outp, ncalls>>
    /\ UNCHANGED <<dsnVars, wsVars>>

\* the call refills the array `which` of the object from a column whose name
\* does not fit the buffer: the copy writes past the end of a local array
Overruns(o, which) ==
    /\ o.tag = "res"
    /\ o.rs.ok
    /\ Len(o[which]) # rs_num_of_fields(o.rs.val)
    /\ \E i \in 1..Len(rs_fields(o.rs.val)) : WrittenPast(rs_fields(o.rs.val)[i].name) > 0
\* the process is killed inside the call
Killed(op, h) ==
    /\ ret' = [op |-> op, h |-> h, arg |-> "", at |-> <<>>, env |-> Ok(0),
               val |-> NullPtr, panic |-> TRUE]
    /\ UNCHANGED <<heap, sent, clients, outp, ncalls>>
    /\ UNCHANGED <<dsnVars, wsVars>>

\* A write past the end of the buffer is undefined: the call may go on with
\* the array it built, or the process may be killed.
WsFetchFields(rs) ==
    \/ LET r == ws_fetch_fields(heap, rs)
       IN  Mutator("ws_fetch_fields", rs, r.heap, r.ptr)
    \/ rs # NULL /\ Overruns(heap[rs], "fields") /\ Killed("ws_fetch_fields", rs)
WsFetchFieldsV2(rs) ==
    \/ LET r == ws_fetch_fields_v2(heap, rs)
       IN  Mutator("ws_fetch_fields_v2", rs, r.heap, r.ptr)
    \/ rs # NULL /\ Overruns(heap[rs], "fields_v2") /\ Killed("ws_fetch_fields_v2", rs)

\* ws_fetch_block with the caller's two out-parameters
WsFetchBlock(rs) ==
    LET r == ws_fetch_block(heap, rs, outp)
    IN  /\ heap' = r.heap
        /\ outp' = r.params
        /\ ret' = [op |-> "ws_fetch_block", h |-> rs, arg |-> "", at |-> <<>>, env |-> Ok(0),
                   val |-> r.code, panic |-> FALSE]
        /\ UNCHANGED <<sent, clients, ncalls>>
        /\ UNCHANGED <<dsnVars, wsVars>>

\* ws_get_value_in_block: the value is the pointer returned with *ty and *len
WsGetValueInBlock(rs, row, col) ==
    /\ ret' = [op |-> "ws_get_value_in_block", h |-> rs, arg |-> "",
               at |-> <<row, col>>, env |-> Ok(0),
               val |-> ws_get_value_in_block(heap, rs, row, col), panic |-> FALSE]
    /\ UNCHANGED <<heap, sent, clients, outp, ncalls>>
    /\ UNCHANGED <<dsnVars, wsVars>>

NextRs ==
    \/ \E rs \in Live(heap, "res") \cup {NULL} : WsQueryErrno(rs)
    \/ \E rs \in Live(heap, "res") \cup {NULL} : WsQueryErrstr(rs)
    \/ \E rs \in Live(heap, "res") \cup {NULL} : WsAffectedRows(rs)
    \/ \E rs \in Live(heap, "res") \cup {NULL} : WsNumOfFields(rs)
    \/ \E rs \in Live(heap, "res") \cup {NULL} : WsResultPrecision(rs)
    \/ \E rs \in Live(heap, "res") \cup {NULL} : WsFetchFields(rs)
    \/ \E rs \in Live(heap, "res") \cup {NULL} : WsFetchFieldsV2(rs)
    \/ \E rs \in Live(heap, "res") \cup {NULL} : WsFetchBlock(rs)
    \/ \E rs \in Live(heap, "res") \cup {NULL}, row \in RowCoordinates, col \in ColCoordinates :
          WsGetValueInBlock(rs, row, col)
    \/ \E taos \in Live(heap, "taos") \cup {NULL} : WsConnectErrno(taos)
    \/ \E taos \in Live(heap, "taos") \cup {NULL} : WsConnectErrstr(taos)
    \/ \E rs \in Live(heap, "res") : WsFreeResult(rs)

SpecRs == InitRs /\ [][NextRs]_vars

(***************************************************************************)
(* The column descriptors of one column: the state after a query whose     *)
(* result has a single column, of any name length around the size of the   *)
(* name buffer and any width around the range of the legacy width field,   *)
(* then calls of the column accessors.                                     *)
(***************************************************************************)
\* a name of n bytes, all `a`
NameOfLen(n) == [i \in 1..n |-> 97]
NameLens == {0, 1, NameBufLen - 2, NameBufLen - 1, NameBufLen, NameBufLen + 1}
Widths == {0, 4, 65535, 65536, 65537, 70000}
\* the columns a result set may have: the transport's Field has a String
\* for its name and a u32 for its width
WideColumns ==
    {[name |-> NameOfLen(n), ty |-> t, bytes |-> w] :
        n \in NameLens, t \in {8, 9}, w \in Widths}
MetaResults ==
    {[fields |-> <<f>>, precision |-> "Millisecond", affected_rows |-> 0,
      rows |-> <<>>, pos |-> 0, serial |-> 0] : f \in WideColumns}

InitMeta ==
    /\ arg = TestDsn
    /\ parse_ok = TRUE
    /\ dsn = arg
    /\ resolved = <<>>
    /\ out = <<>>
    /\ WsInit
    /\ \E rs \in MetaResults :
          heap = HeapAfterQuery("ws://localhost:6041", Ok(0), 1, "show databases", Ok(rs))
    /\ sent = <<<<1, "show databases">>>>
    /\ clients = 1
    /\ ret = NoCall
    /\ outp = NoOut
    /\ ncalls = 0

\* a process that was killed makes no call
NextMeta ==
    \/ ~ret.panic /\ \E rs \in Live(heap, "res") : WsNumOfFields(rs)
    \/ ~ret.panic /\ \E rs \in Live(heap, "res") : WsFetchFields(rs)
    \/ ~ret.panic /\ \E rs \in Live(heap, "res") : WsFetchFieldsV2(rs)
    \/ ~ret.panic /\ \E rs \in Live(heap, "res") : WsFreeResult(rs)

SpecMeta == InitMeta /\ [][NextMeta]_vars

(***************************************************************************)
(* Ownership of handles: from an open session, any calls that make,        *)
(* advance and release handles, none of them on a released handle.         *)
(***************************************************************************)
InitOwn ==
    /\ arg = TestDsn
    /\ parse_ok = TRUE
    /\ dsn = arg
    /\ resolved = <<>>
    /\ out = <<>>
    /\ WsInit
    /\ heap = HeapAfterConnect("ws://localhost:6041", Ok(0))
    /\ ret = NoCall
    /\ sent = <<>>
    /\ clients = 1
    /\ outp = NoOut
    /\ ncalls = 0

NextOwn ==
    \/ \E d \in DsnStrings, open \in OpenAnswers : WsConnectWithDsn(d, open)
    \/ \E taos \in Live(heap, "taos"), sql \in SqlStrings, reply \in QueryAnswers :
          WsQuery(taos, sql, reply)
    \/ \E rs \in Live(heap, "res") : WsFetchBlock(rs)
    \/ \E rs \in Live(heap, "res") : WsFreeResult(rs)
    \/ \E taos \in Live(heap, "taos") : WsClose(taos)

SpecOwn == InitOwn /\ [][NextOwn]_vars

(***************************************************************************)
(* Properties of descriptor resolution, checked under SpecDsn.             *)
(***************************************************************************)
Called   == resolved # <<>>
Parsed   == Called /\ parse_ok
Failed   == Called /\ ~resolved[1].ok
WebDrivers == {"ws", "http", "wss", "https"}
WebProtocols == {Some("ws"), Some("http"), Some("wss"), Some("https")}
\* the credentials a URL must not show: the descriptor's own and the defaults
Credentials ==
    {Unwrap(c) : c \in {arg.username, arg.password} \ {None}} \cup {"root", "taosdata"}
Urls == {to_query_url(Info), to_stmt_url(Info), to_tmq_url(Info)}

\* C1: on a parsed descriptor WsInfo::from_dsn follows the scheme table:
\* (ws|http, *) -> ws; (wss|https, *) -> wss; (taos, ws|http) -> ws;
\* (taos, wss|https) -> wss; any other pair fails with InvalidDriver and
\* yields no info; a resolved scheme is ws or wss.
C1_SchemeTable ==
    Parsed =>
        LET r == resolved[1]
            d == arg.driver
            p == arg.protocol
        IN  /\ d \in {"ws", "http"} => r.ok /\ r.info.scheme = "ws"
            /\ d \in {"wss", "https"} => r.ok /\ r.info.scheme = "wss"
            /\ d = "taos" /\ p \in {Some("ws"), Some("http")}
                   => r.ok /\ r.info.scheme = "ws"
            /\ d = "taos" /\ p \in {Some("wss"), Some("https")}
                   => r.ok /\ r.info.scheme = "wss"
            /\ d \notin WebDrivers /\ ~(d = "taos" /\ p \in WebProtocols)
                   => /\ ~r.ok
                      /\ r.err = "InvalidDriver"
                      /\ r.descriptor = arg
                      /\ "info" \notin DOMAIN r
            /\ r.ok => r.info.scheme \in {"ws", "wss"}
\* a taos descriptor without sub-protocol has been refused
C1_Witness ==
    /\ Parsed
    /\ arg.driver = "taos"
    /\ arg.protocol = None
    /\ Failed

\* C2 as stated: every driver outside {ws, http, wss, https} fails,
\* whatever its sub-protocol.
C2_Original ==
    Parsed /\ arg.driver \notin WebDrivers => ~resolved[1].ok
\* C2 as amended: resolution succeeds only for a driver in {ws, http, wss,
\* https} or for driver taos with a sub-protocol in {ws, http, wss, https};
\* every other descriptor fails with InvalidDriver.
C2_OnlyWebOrTaosWeb ==
    Parsed =>
        /\ resolved[1].ok =>
              \/ arg.driver \in WebDrivers
              \/ arg.driver = "taos" /\ arg.protocol \in WebProtocols
        /\ arg.driver \notin WebDrivers \cup {"taos"} =>
              ~resolved[1].ok /\ resolved[1].err = "InvalidDriver"
        /\ arg.driver = "taos" /\ arg.protocol \notin WebProtocols =>
              ~resolved[1].ok /\ resolved[1].err = "InvalidDriver"
\* driver taos with a sub-protocol outside the table has been refused
C2_Witness ==
    /\ Parsed
    /\ arg.driver = "taos"
    /\ arg.protocol = Some("tcp")
    /\ Failed
    /\ resolved[1].err = "InvalidDriver"

\* C3: each of the three endpoint URLs of a resolved info carries the token
\* parameter exactly once (as its ?token=T suffix) when the descriptor had
\* token=T and not at all otherwise, and never shows a username or password.
C3_TokenOnlyInTokenMode ==
    Resolved =>
        \A u \in Urls :
            /\ IF "token" \in DOMAIN arg.params
               THEN /\ Cardinality(Occurrences(Chars("token="), u)) = 1
                    /\ EndsWith(u, Chars("?token=") \o Chars(arg.params["token"]))
               ELSE ~Contains(u, Chars("token="))
            /\ \A c \in Credentials : ~Contains(u, Chars(c))
            /\ ~Contains(u, Chars("@"))
\* the statement URL of a token descriptor that also had credentials was built
C3_Witness ==
    /\ Resolved
    /\ "token" \in DOMAIN arg.params
    /\ IsSome(arg.username)
    /\ IsSome(arg.password)
    /\ out # <<>>
    /\ out[1].fn = "to_stmt_url"
    /\ Contains(out[1].val, Chars("?token="))

\* C4: a token key selects token mode with its value, whatever credentials
\* are present, and leaves the map without the key (other keys kept);
\* without it plain mode is selected, username defaulting to root and
\* password to taosdata, each on its own.
C4_OneAuthMode ==
    Resolved =>
        LET a == Info.auth
        IN  IF "token" \in DOMAIN arg.params
            THEN /\ a = [mode |-> "Token", token |-> arg.params["token"]]
                 /\ DOMAIN dsn.params = DOMAIN arg.params \ {"token"}
                 /\ \A k \in DOMAIN dsn.params : dsn.params[k] = arg.params[k]
            ELSE /\ a.mode = "Plain"
                 /\ DOMAIN a = {"mode", "user", "pass"}
                 /\ a.user = (IF arg.username = None THEN "root" ELSE arg.username[1])
                 /\ a.pass = (IF arg.password = None THEN "taosdata" ELSE arg.password[1])
                 /\ dsn.params = arg.params
\* token mode was selected although the descriptor had both credentials
C4_Witness ==
    /\ Resolved
    /\ "token" \in DOMAIN arg.params
    /\ "timeout" \in DOMAIN arg.params
    /\ IsSome(arg.username)
    /\ IsSome(arg.password)
    /\ Info.auth.mode = "Token"
\* plain mode with one credential given and the other defaulted
C4_WitnessPlain ==
    /\ Resolved
    /\ "token" \notin DOMAIN arg.params
    /\ arg.username = Some("alice")
    /\ arg.password = None
    /\ Info.auth = [mode |-> "Plain", user |-> "alice", pass |-> "taosdata"]

\* C5: the resolved address is the first entry of the address list, or
\* localhost:6041 when the list is empty; a resolution never fails because
\* of the address list (a parsed descriptor fails only on its driver pair).
C5_FirstAddress ==
    /\ Resolved =>
          Info.addr = (IF arg.addresses = <<>> THEN "localhost:6041"
                       ELSE Head(arg.addresses))
    /\ Parsed /\ Failed =>
          /\ resolved[1].err = "InvalidDriver"
          /\ arg.driver \notin WebDrivers
          /\ ~(arg.driver = "taos" /\ arg.protocol \in WebProtocols)
\* a two-entry list with different entries resolved to its first entry
C5_Witness ==
    /\ Resolved
    /\ Len(arg.addresses) = 2
    /\ arg.addresses[1] # arg.addresses[2]
    /\ Info.addr = arg.addresses[1]
\* an empty list resolved to the default address
C5_WitnessEmpty ==
    /\ Resolved
    /\ arg.addresses = <<>>
    /\ Info.addr = "localhost:6041"

\* the handshake payload the last builder call produced, if it was one
Handshakes == {out[i].val : i \in {j \in DOMAIN out : out[j].fn = "to_conn_request"}}
\* the strings a payload carries
Carried(req) == {Unwrap(x) : x \in {req.user, req.password, req.db} \ {None}}

\* C24: the handshake payload never carries the bearer token.  On a
\* descriptor with a token the payload has the fixed user root and password
\* taosdata, whatever credentials the descriptor had; without a token it has
\* exactly the resolved username and password (the descriptor's, or the
\* defaults root and taosdata); in both modes its database is the resolved
\* default database, absent when the descriptor names none.
C24_HandshakeWithoutToken ==
    \A req \in Handshakes :
        /\ DOMAIN req = {"user", "password", "db"}
        /\ IF "token" \in DOMAIN arg.params
           THEN /\ req.user = Some("root")
                /\ req.password = Some("taosdata")
                /\ arg.params["token"] \notin Carried(req)
           ELSE /\ req.user = Some(UnwrapOr(arg.username, "root"))
                /\ req.password = Some(UnwrapOr(arg.password, "taosdata"))
                /\ req.user = Some(Info.auth.user)
                /\ req.password = Some(Info.auth.pass)
        /\ req.db = arg.database
        /\ req.db = Info.database
\* a payload was built for a token descriptor that also had its own
\* credentials and a database
C24_Witness ==
    /\ Handshakes # {}
    /\ "token" \in DOMAIN arg.params
    /\ arg.username = Some("alice")
    /\ arg.password = Some("s3cret")
    /\ arg.database = Some("db1")
\* a payload was built in plain mode from the descriptor's own credentials,
\* with no database
C24_WitnessPlain ==
    /\ \E req \in Handshakes : req.user = Some("alice") /\ req.password = Some("s3cret")
    /\ "token" \notin DOMAIN arg.params
    /\ arg.database = None

(***************************************************************************)
(* Properties of the boundary, checked under SpecFfi.                      *)
(***************************************************************************)
\* the step is a call of the boundary function `op` that allocates or releases
Calls(op) == ncalls' # ncalls /\ ret'.op = op
\* every box but the one at address a is left as it was
OthersKept(a) == \A b \in Addresses \ {a} : heap'[b] = heap[b]

\* C8: ws_connect_with_dsn and ws_query return, for every outcome (input
\* that is not UTF-8, descriptor error, transport error, null or failed
\* session, success), a non-null handle at an address that was free before
\* the call and holds the new object after it; the object holds a failure
\* exactly when the call failed, and no call panics.
C8_AlwaysAHandle ==
    [][/\ Calls("ws_connect_with_dsn") =>
            /\ ~ret'.panic
            /\ ret'.val # NULL
            /\ ret'.val \in FreeAddrs(heap)
            /\ heap'[ret'.val].tag = "taos"
            /\ heap'[ret'.val].val.ok = (ret'.arg # BadUtf8 /\ ret'.env.ok)
            /\ OthersKept(ret'.val)
       /\ Calls("ws_query") =>
            /\ ~ret'.panic
            /\ ret'.val # NULL
            /\ ret'.val \in FreeAddrs(heap)
            /\ heap'[ret'.val].tag = "res"
            /\ heap'[ret'.val].rs.ok =
                 (/\ ret'.h # NULL
                  /\ heap[ret'.h].val.ok
                  /\ ret'.arg # BadUtf8
                  /\ ret'.env.ok)
            /\ OthersKept(ret'.val)
      ]_vars
\* ws_query with a statement that is not UTF-8 returned a handle holding the failure
C8_Witness ==
    /\ ret.op = "ws_query"
    /\ ret.arg = BadUtf8
    /\ ret.h # NULL
    /\ heap[ret.h].val.ok
    /\ ret.val # NULL
    /\ heap[ret.val].tag = "res"
    /\ ~heap[ret.val].rs.ok
\* ws_connect_with_dsn with a descriptor that is not UTF-8 returned a handle
C8_WitnessConnect ==
    /\ ret.op = "ws_connect_with_dsn"
    /\ ret.arg = BadUtf8
    /\ ret.val # NULL
    /\ ~heap[ret.val].val.ok

\* C9: a session handle whose connect failed reports a nonzero code and a
\* non-empty message; ws_query through it yields a result-set handle whose
\* code and message are the session's, and hands nothing to the transport.
C9_FailedSession ==
    [][/\ \A a \in Live(heap', "taos") :
             ~heap'[a].val.ok =>
                 /\ ws_connect_errno(heap', a) # 0
                 /\ ws_connect_errstr(heap', a) # EMPTY
       /\ Calls("ws_query") /\ ret'.h # NULL /\ ~heap[ret'.h].val.ok =>
             /\ ret'.val # NULL
             /\ ws_query_errno(heap', ret'.val) = ws_connect_errno(heap, ret'.h)
             /\ ws_query_errstr(heap', ret'.val) = ws_connect_errstr(heap, ret'.h)
             /\ ws_query_errno(heap', ret'.val) # 0
             /\ sent' = sent
      ]_vars
\* a query went through a session that failed with the transport's code 11
C9_Witness ==
    /\ ret.op = "ws_query"
    /\ ret.h # NULL
    /\ heap[ret.h].tag = "taos"
    /\ ~heap[ret.h].val.ok
    /\ heap[ret.h].val.err.code = 11
    /\ ret.arg # BadUtf8
    /\ ret.env.ok
    /\ ret.val # NULL
    /\ ws_query_errno(heap, ret.val) = 11
    /\ sent = <<>>

\* C10: when the transport rejects a statement on a live session with
\* (c, m), the result-set handle returned by ws_query reports code c, which
\* is nonzero, and message m; a failure that is not the transport's (a
\* statement that is not UTF-8, a null session handle) reports Code::Failed.
C10_CodeOfTheSource ==
    ret.op = "ws_query" /\ ~ret.panic =>
        /\ ret.h # NULL /\ heap[ret.h].val.ok /\ ret.arg # BadUtf8 /\ ~ret.env.ok =>
              /\ ws_query_errno(heap, ret.val) = ret.env.err.errno
              /\ ws_query_errno(heap, ret.val) # 0
              /\ ws_query_errstr(heap, ret.val) = ret.env.err.errstr
        /\ ret.h = NULL =>
              /\ ws_query_errno(heap, ret.val) = Code_Failed
              /\ ws_query_errstr(heap, ret.val) = "client pointer it null"
        /\ ret.h # NULL /\ heap[ret.h].val.ok /\ ret.arg = BadUtf8 =>
              /\ ws_query_errno(heap, ret.val) = Code_Failed
              /\ ws_query_errstr(heap, ret.val) = Utf8ErrorText
\* a live session's statement was rejected with the server's code and text
C10_Witness ==
    /\ ret.op = "ws_query"
    /\ ret.h # NULL
    /\ heap[ret.h].val.ok
    /\ ret.arg = "show databases"
    /\ ret.env = Err([errno |-> 9728, errstr |-> "Incomplete SQL statement"])
    /\ ws_query_errno(heap, ret.val) = 9728
    /\ ws_query_errstr(heap, ret.val) = "Incomplete SQL statement"
    /\ Len(sent) = 1

\* C14 as stated: ws_query with the null session handle is a no-op, and the
\* result-set handle it returns reports error code 0.
C14_Original ==
    (ret.op = "ws_query" /\ ret.h = NULL /\ ~ret.panic) =>
        ws_query_errno(heap, ret.val) = 0
\* C14, amended: ws_query with the null session handle asks nothing of the
\* transport and returns a new result-set handle in error state, whose code
\* is Code::Failed, which is not 0, and whose message is "client pointer it
\* null"; no other object changes.
C14_NullSessionIsAnError ==
    [][(Calls("ws_query") /\ ret'.h = NULL) =>
          /\ ~ret'.panic
          /\ ret'.val \in FreeAddrs(heap)
          /\ heap'[ret'.val] =
                WsResultSet_new(Err([code |-> Code_Failed,
                                     message |-> "client pointer it null"]))
          /\ OthersKept(ret'.val)
          /\ ws_query_errno(heap', ret'.val) # 0
          /\ ws_query_errstr(heap', ret'.val) # EMPTY
          /\ sent' = sent
      ]_vars
\* ws_query was called with the null handle while a session is open
C14_Witness ==
    /\ ret.op = "ws_query"
    /\ ret.h = NULL
    /\ ret.arg # BadUtf8
    /\ ret.env.ok
    /\ \E a \in Live(heap, "taos") : heap[a].val.ok
    /\ heap[ret.val].tag = "res"
    /\ ws_query_errno(heap, ret.val) = Code_Failed

(***************************************************************************)
(* Properties of one result-set handle, checked under SpecRs.              *)
(***************************************************************************)
\* the step is a call of the boundary function op
Did(op) == ret'.op = op
ResultHandles == Live(heap, "res")
\* the handle is in error state
InError(rs) == ~heap[rs].rs.ok
\* the handle has fetched: it holds a block or its transport has moved
Fetched(rs) == heap[rs].rs.ok /\ heap[rs].rs.val.pos > 0
AtEnd(rs) ==
    /\ heap[rs].rs.ok
    /\ heap[rs].rs.val.pos = Len(heap[rs].rs.val.rows)
    /\ heap[rs].block = None

\* C11: the error state of a result-set handle is fixed at construction.  No
\* call on a live handle changes what ws_query_errno and ws_query_errstr
\* return for it: 0 and the empty string for a handle built from a
\* successful result, the stored code and the stored message otherwise; and
\* a call of either returns exactly that.
C11_ErrorStateFixed ==
    [][\A rs \in ResultHandles :
          heap'[rs].tag = "res" =>
             /\ heap'[rs].rs.ok = heap[rs].rs.ok
             /\ ws_query_errno(heap', rs) = ws_query_errno(heap, rs)
             /\ ws_query_errstr(heap', rs) = ws_query_errstr(heap, rs)
             /\ heap[rs].rs.ok =>
                   ws_query_errno(heap', rs) = 0 /\ ws_query_errstr(heap', rs) = EMPTY
             /\ ~heap[rs].rs.ok =>
                   /\ ws_query_errno(heap', rs) = heap[rs].rs.err.code
                   /\ ws_query_errstr(heap', rs) = heap[rs].rs.err.message
             /\ (Did("ws_query_errno") /\ ret'.h = rs) =>
                   ret'.val = ws_query_errno(heap, rs)
             /\ (Did("ws_query_errstr") /\ ret'.h = rs) =>
                   ret'.val = ws_query_errstr(heap, rs)]_vars
\* ws_query_errno answers 0 on a handle that has fetched to the end of its
\* data and built both column arrays
C11_Witness ==
    /\ ret.op = "ws_query_errno"
    /\ ret.h \in ResultHandles
    /\ AtEnd(ret.h)
    /\ Fetched(ret.h)
    /\ heap[ret.h].fields # <<>>
    /\ heap[ret.h].fields_v2 # <<>>
    /\ ret.val = 0
\* ws_query_errno answers the transport's code on a handle in error state
C11_WitnessError ==
    /\ ret.op = "ws_query_errno"
    /\ ret.h \in ResultHandles
    /\ InError(ret.h)
    /\ ret.val = 9728

\* C12: on a result-set handle in error state every call short of its
\* release leaves the handle and the caller's out-parameters as they were
\* and returns its inert default: precision millisecond, affected rows 0,
\* column count 0, the null pointer from both column accessors with no array
\* built, the stored nonzero code from ws_fetch_block with no block held,
\* and (Null, 0, null) from ws_get_value_in_block at every coordinate.
C12_ErrorStateInert ==
    [][\A rs \in ResultHandles :
          (InError(rs) /\ ret'.h = rs /\ ~Did("ws_free_result")) =>
             /\ heap' = heap
             /\ outp' = outp
             /\ heap'[rs].block = None
             /\ heap'[rs].fields = <<>> /\ heap'[rs].fields_v2 = <<>>
             /\ Did("ws_result_precision") => ret'.val = PrecisionAsI32("Millisecond")
             /\ Did("ws_affected_rows") => ret'.val = 0
             /\ Did("ws_num_of_fields") => ret'.val = 0
             /\ Did("ws_fetch_fields") => ret'.val = NullPtr
             /\ Did("ws_fetch_fields_v2") => ret'.val = NullPtr
             /\ Did("ws_fetch_block") =>
                   ret'.val = heap[rs].rs.err.code /\ ret'.val # 0
             /\ Did("ws_get_value_in_block") => ret'.val = NullValue]_vars
\* ws_fetch_block has answered the transport's code on a handle in error state
C12_Witness ==
    /\ ret.op = "ws_fetch_block"
    /\ ret.h \in ResultHandles
    /\ InError(ret.h)
    /\ ret.val = 9728
    /\ outp = NoOut
\* ws_fetch_fields has answered the null pointer on a handle in error state
C12_WitnessFields ==
    /\ ret.op = "ws_fetch_fields"
    /\ ret.h \in ResultHandles
    /\ InError(ret.h)
    /\ ret.val = NullPtr

\* C13: each of the eleven accessors, called with the null handle, returns
\* its inert value (0, the empty string, the null pointer, a row count of 0,
\* (Null, 0, null)) and touches no object: the heap is as it was, and of the
\* caller's out-parameters only the row count of ws_fetch_block is written.
C13_NullHandleInert ==
    [][ret'.h = NULL =>
          /\ Did("ws_connect_errno") => ret'.val = 0 /\ heap' = heap /\ outp' = outp
          /\ Did("ws_connect_errstr") => ret'.val = EMPTY /\ heap' = heap /\ outp' = outp
          /\ Did("ws_query_errno") => ret'.val = 0 /\ heap' = heap /\ outp' = outp
          /\ Did("ws_query_errstr") => ret'.val = EMPTY /\ heap' = heap /\ outp' = outp
          /\ Did("ws_affected_rows") => ret'.val = 0 /\ heap' = heap /\ outp' = outp
          /\ Did("ws_num_of_fields") => ret'.val = 0 /\ heap' = heap /\ outp' = outp
          /\ Did("ws_fetch_fields") => ret'.val = NullPtr /\ heap' = heap /\ outp' = outp
          /\ Did("ws_fetch_fields_v2") => ret'.val = NullPtr /\ heap' = heap /\ outp' = outp
          /\ Did("ws_result_precision") => ret'.val = 0 /\ heap' = heap /\ outp' = outp
          /\ Did("ws_get_value_in_block") =>
                ret'.val = [ty |-> Ty_Null, len |-> 0, ptr |-> NullPtr]
                /\ heap' = heap /\ outp' = outp
          /\ Did("ws_fetch_block") =>
                /\ ret'.val = 0
                /\ outp'.rows = 0 /\ outp'.ptr = outp.ptr
                /\ heap' = heap]_vars
\* ws_fetch_block was called with the null handle while a live handle holds a
\* block: the row count is 0, the block pointer of the earlier fetch remains
C13_Witness ==
    /\ ret.op = "ws_fetch_block"
    /\ ret.h = NULL
    /\ \E rs \in ResultHandles : heap[rs].block # None
    /\ outp.ptr # NullPtr
    /\ outp.rows = 0

\* the blocks the transport of a handle yields in all, and those it has yielded
BlocksOf(rs) == Len(heap[rs].rs.val.rows)
YieldedBy(rs) == heap[rs].rs.val.pos

\* C15: on a successful result set whose transport yields k blocks, every
\* ws_fetch_block returns 0.  The call made after i < k earlier ones hands out
\* block i + 1 of the transport with its row count, which is not 0; the call
\* made after k or more hands out no block and a row count of 0, and leaves
\* the transport where it was.  A row count of 0 is reported only at the end
\* of the data.
C15_FetchSequence ==
    [][\A rs \in ResultHandles :
          (Did("ws_fetch_block") /\ ret'.h = rs /\ heap[rs].rs.ok) =>
             /\ ret'.val = 0
             /\ heap'[rs].rs.ok
             /\ BlocksOf(rs)' = BlocksOf(rs)
             /\ YieldedBy(rs) < BlocksOf(rs) =>
                   /\ YieldedBy(rs)' = YieldedBy(rs) + 1
                   /\ outp'.ptr = as_ptr(BlockOf(heap[rs].rs.val, YieldedBy(rs) + 1))
                   /\ outp'.rows = heap[rs].rs.val.rows[YieldedBy(rs) + 1]
                   /\ outp'.rows > 0
             /\ YieldedBy(rs) >= BlocksOf(rs) =>
                   /\ YieldedBy(rs)' = YieldedBy(rs)
                   /\ outp'.rows = 0
                   /\ outp'.ptr = outp.ptr
                   /\ heap'[rs].block = None
             /\ outp'.rows = 0 => YieldedBy(rs)' = BlocksOf(rs)]_vars
\* a handle whose transport had the most blocks has handed out all of them
\* and then reported the end of the data
C15_Witness ==
    /\ ret.op = "ws_fetch_block"
    /\ ret.h \in ResultHandles
    /\ AtEnd(ret.h)
    /\ BlocksOf(ret.h) = MaxBlocks
    /\ ret.val = 0
    /\ outp.rows = 0
    /\ outp.ptr = <<1, MaxBlocks>>

\* the blocks held by the objects of a heap
HeldIn(h) == {h[a].block : a \in Live(h, "res")} \ {None}

\* C16: a result-set handle holds one block at most.  A ws_fetch_block on a
\* successful result set leaves it holding what the transport just produced,
\* the next block or none, and the block held before is held no more; no
\* other call changes the held block; and a cell pointer handed out by
\* ws_get_value_in_block points into the block held at the call.
C16_OneBlockHeld ==
    [][\A rs \in ResultHandles :
          heap'[rs].tag = "res" =>
             /\ Len(heap'[rs].block) <= 1
             /\ (Did("ws_fetch_block") /\ ret'.h = rs /\ heap[rs].rs.ok) =>
                   /\ heap'[rs].block = rs_next(heap[rs].rs.val).block
                   /\ heap[rs].block # None => heap[rs].block \notin HeldIn(heap')
             /\ ~(Did("ws_fetch_block") /\ ret'.h = rs) =>
                   heap'[rs].block = heap[rs].block
             /\ (Did("ws_get_value_in_block") /\ ret'.h = rs
                    /\ ret'.val.ptr # NullPtr) =>
                   /\ heap[rs].block # None
                   /\ SubSeq(ret'.val.ptr, 1, 2) = as_ptr(Unwrap(heap[rs].block))]_vars
\* a cell of the second block was read after the second fetch replaced the
\* first block
C16_Witness ==
    /\ ret.op = "ws_get_value_in_block"
    /\ ret.h \in ResultHandles
    /\ heap[ret.h].block # None
    /\ as_ptr(Unwrap(heap[ret.h].block)) = <<1, 2>>
    /\ ret.val.ptr = <<1, 2, 0, 0>>
\* the end of the data was reached: the last block is held no more
C16_WitnessEnd ==
    /\ ret.op = "ws_fetch_block"
    /\ ret.h \in ResultHandles
    /\ AtEnd(ret.h)
    /\ Fetched(ret.h)
    /\ HeldIn(heap) = {}

\* the coordinates lie inside the block the handle holds
InBlock(rs, row, col) ==
    /\ heap[rs].block # None
    /\ 0 <= row /\ row < Unwrap(heap[rs].block).nrows
    /\ 0 <= col /\ col < Unwrap(heap[rs].block).ncols

\* C17: whatever the state of a result-set handle and whatever the i32
\* coordinates, ws_get_value_in_block gives the value of the held block's
\* accessor exactly when a block is held, 0 <= row < its row count and
\* 0 <= col < its column count, and gives (Null, 0, null) in every other
\* case; it changes nothing.
C17_CellBounds ==
    [][\A rs \in ResultHandles :
          (Did("ws_get_value_in_block") /\ ret'.h = rs) =>
             LET row == ret'.at[1]
                 col == ret'.at[2]
             IN  /\ InBlock(rs, row, col) =>
                       ret'.val = get_raw_value_unchecked(Unwrap(heap[rs].block), row, col)
                 /\ ~InBlock(rs, row, col) =>
                       ret'.val = [ty |-> Ty_Null, len |-> 0, ptr |-> NullPtr]
                 /\ heap' = heap
                 /\ outp' = outp]_vars
\* a block is held and the row is the least i32: the answer is (Null, 0, null)
C17_Witness ==
    /\ ret.op = "ws_get_value_in_block"
    /\ ret.h \in ResultHandles
    /\ heap[ret.h].block # None
    /\ ret.at = <<I32Min, 0>>
    /\ Unwrap(heap[ret.h].block).ncols > 0
    /\ ret.val = NullValue
\* the last cell of a full block was read
C17_WitnessInside ==
    /\ ret.op = "ws_get_value_in_block"
    /\ ret.h \in ResultHandles
    /\ heap[ret.h].block # None
    /\ ret.at = <<MaxRows - 1, MaxCols - 1>>
    /\ ret.val.ptr # NullPtr
    /\ ret.val.ty = TableColumns[MaxCols].ty
\* a cell was asked for after the end of the data
C17_WitnessEnd ==
    /\ ret.op = "ws_get_value_in_block"
    /\ ret.h \in ResultHandles
    /\ AtEnd(ret.h)
    /\ Fetched(ret.h)
    /\ ret.at = <<0, 0>>
    /\ ret.val = NullValue

\* the columns of the result set behind a handle
ColumnsOf(rs) == heap[rs].rs.val.fields
\* entry i of the current array and entry i of the legacy array of an object
\* describe column i: its name and its type tag
EntriesAgree(o, columns) ==
    \A i \in 1..Len(o.fields) :
       \A j \in 1..Len(o.fields_v2) :
          i = j =>
             /\ WS_FIELD_name(o.fields[i]) = WS_FIELD_V2_name(o.fields_v2[j])
             /\ WS_FIELD_name(o.fields[i]) = {CStrOf(columns[i].name)}
             /\ o.fields[i].type = o.fields_v2[j].type
             /\ o.fields[i].type = columns[i].ty

\* C18: for a successful result set of N columns, ws_num_of_fields returns
\* N, ws_fetch_fields and ws_fetch_fields_v2 each return their array with N
\* entries, whichever is called first, and once both are built entry i of the
\* one has the name and the type tag of entry i of the other, those of
\* column i.  The name of an entry is what name() reads from it, and the
\* calls are those that return.
C18_ColumnArraysAgree ==
    [][\A rs \in ResultHandles :
          (heap[rs].rs.ok /\ ret'.h = rs /\ ~ret'.panic) =>
             /\ Did("ws_num_of_fields") => ret'.val = Len(ColumnsOf(rs))
             /\ Did("ws_fetch_fields") =>
                   /\ ret'.val = PtrTo(heap'[rs].fields)
                   /\ Len(heap'[rs].fields) = Len(ColumnsOf(rs))
                   /\ heap'[rs].fields_v2 = heap[rs].fields_v2
             /\ Did("ws_fetch_fields_v2") =>
                   /\ ret'.val = PtrTo(heap'[rs].fields_v2)
                   /\ Len(heap'[rs].fields_v2) = Len(ColumnsOf(rs))
                   /\ heap'[rs].fields = heap[rs].fields
             /\ heap'[rs].tag = "res" => EntriesAgree(heap'[rs], ColumnsOf(rs))]_vars
\* ws_fetch_fields_v2 was called after ws_fetch_fields on a result set with
\* the most columns
C18_Witness ==
    /\ ret.op = "ws_fetch_fields_v2"
    /\ ret.h \in ResultHandles
    /\ heap[ret.h].rs.ok
    /\ Len(ColumnsOf(ret.h)) = MaxCols
    /\ Len(heap[ret.h].fields) = MaxCols
    /\ Len(heap[ret.h].fields_v2) = MaxCols
    /\ ret.val = PtrTo(heap[ret.h].fields_v2)
    /\ WS_FIELD_V2_name(heap[ret.h].fields_v2[1]) = {CStrOf(<<116, 115>>)}
\* ws_fetch_fields was called after ws_fetch_fields_v2
C18_WitnessOtherOrder ==
    /\ ret.op = "ws_fetch_fields"
    /\ ret.h \in ResultHandles
    /\ heap[ret.h].rs.ok
    /\ Len(ColumnsOf(ret.h)) = MaxCols
    /\ Len(heap[ret.h].fields) = MaxCols
    /\ Len(heap[ret.h].fields_v2) = MaxCols

(***************************************************************************)
(* Properties of handle ownership, checked under SpecOwn.                  *)
(***************************************************************************)
\* no block is held by two result-set handles of a heap
NoSharedBlock(h) ==
    \A a \in Live(h, "res") :
       \A b \in Live(h, "res") :
          (a # b /\ h[a].block # None) => h[a].block # h[b].block

\* C19: over calls of connect, query, fetch_block, free_result and close on
\* live handles, a new handle is an address that no live handle has, and
\* making it changes no other object; ws_free_result and ws_close release
\* the object passed, with the block and the arrays it holds, and change no
\* other object; ws_fetch_block changes the object passed only; and no block
\* is held by two result-set handles.
C19_HandleOwnership ==
    [][/\ (Calls("ws_connect_with_dsn") \/ Calls("ws_query")) =>
             /\ ret'.val \in FreeAddrs(heap)
             /\ ret'.val \notin Live(heap, "taos") \cup Live(heap, "res")
             /\ heap'[ret'.val].tag = IF Did("ws_query") THEN "res" ELSE "taos"
             /\ OthersKept(ret'.val)
       /\ (Calls("ws_free_result") \/ Calls("ws_close")) =>
             /\ heap'[ret'.h] = Free
             /\ OthersKept(ret'.h)
             /\ heap[ret'.h].tag = "res" /\ heap[ret'.h].block # None =>
                   heap[ret'.h].block \notin HeldIn(heap')
       /\ Did("ws_fetch_block") => OthersKept(ret'.h)
       /\ NoSharedBlock(heap')
      ]_vars
\* a result-set handle was released while a second one, made by a later
\* query on the same session, holds a block; that one and the session remain
C19_Witness ==
    /\ ret.op = "ws_free_result"
    /\ heap[ret.h] = Free
    /\ \E rs \in ResultHandles : heap[rs].block # None
    /\ \E taos \in Live(heap, "taos") : heap[taos].val.ok
    /\ Len(sent) = 2
\* a session was closed while a result set made through it holds a block
C19_WitnessClose ==
    /\ ret.op = "ws_close"
    /\ heap[ret.h] = Free
    /\ Live(heap, "taos") = {}
    /\ \E rs \in ResultHandles : heap[rs].block # None
\* two result-set handles hold a block each
C19_WitnessTwoBlocks ==
    \E a \in ResultHandles : \E b \in ResultHandles :
       a # b /\ heap[a].block # None /\ heap[b].block # None

\* C22: on a successful result set each of the two cached arrays is cleared
\* and refilled only by a call of its own accessor that finds its length
\* different from the column count, and after the call its length is the
\* column count: so it is rebuilt once per handle at most.  No other call,
\* the accessor of the other layout included, changes it.
C22_RebuiltOnceAtMost ==
    [][\A rs \in ResultHandles :
          (heap[rs].rs.ok /\ heap'[rs].tag = "res") =>
             LET old == heap[rs]
                 new == heap'[rs]
                 N   == Len(ColumnsOf(rs))
             IN  /\ (new.rebuilds.fields # old.rebuilds.fields
                        \/ new.fields # old.fields) =>
                       /\ Did("ws_fetch_fields") /\ ret'.h = rs
                       /\ Len(old.fields) # N
                       /\ new.rebuilds.fields = old.rebuilds.fields + 1
                 /\ (new.rebuilds.fields_v2 # old.rebuilds.fields_v2
                        \/ new.fields_v2 # old.fields_v2) =>
                       /\ Did("ws_fetch_fields_v2") /\ ret'.h = rs
                       /\ Len(old.fields_v2) # N
                       /\ new.rebuilds.fields_v2 = old.rebuilds.fields_v2 + 1
                 /\ (Did("ws_fetch_fields") /\ ret'.h = rs) => Len(new.fields) = N
                 /\ (Did("ws_fetch_fields_v2") /\ ret'.h = rs) => Len(new.fields_v2) = N
                 /\ new.rebuilds.fields <= 1 /\ new.rebuilds.fields_v2 <= 1
                 /\ new.rebuilds.fields = 1 => Len(new.fields) = N
                 /\ new.rebuilds.fields_v2 = 1 => Len(new.fields_v2) = N]_vars
\* both arrays were built, the current one last, and then cells were read
\* from a fetched block: each array was rebuilt once
C22_Witness ==
    /\ ret.op = "ws_get_value_in_block"
    /\ ret.h \in ResultHandles
    /\ heap[ret.h].rs.ok
    /\ heap[ret.h].block # None
    /\ Len(ColumnsOf(ret.h)) = MaxCols
    /\ heap[ret.h].rebuilds = [fields |-> 1, fields_v2 |-> 1]
\* the accessor was called on a result set without columns: nothing was rebuilt
C22_WitnessNoColumns ==
    /\ ret.op = "ws_fetch_fields"
    /\ ret.h \in ResultHandles
    /\ heap[ret.h].rs.ok
    /\ Len(ColumnsOf(ret.h)) = 0
    /\ ret.val = PtrTo(<<>>)
    /\ heap[ret.h].rebuilds.fields = 0

(***************************************************************************)
(* Properties of the column descriptors, checked under SpecMeta.           *)
(***************************************************************************)
\* the entries built so far for column i of a handle, in either layout
EntriesOf(rs, i) ==
    {heap[rs].fields[j] : j \in {i} \cap DOMAIN heap[rs].fields}
       \cup {heap[rs].fields_v2[j] : j \in {i} \cap DOMAIN heap[rs].fields_v2}

\* C23 as stated: for every column the transport reports, building its entry
\* in either layout copies 64 name bytes at most, writes nothing past the end
\* of the 65-byte buffer and leaves the buffer nul-terminated.
C23_Original ==
    \A rs \in ResultHandles :
       heap[rs].rs.ok =>
          \A i \in 1..Len(ColumnsOf(rs)) :
             \A e \in EntriesOf(rs, i) :
                /\ CopyCount(ColumnsOf(rs)[i].name) <= NameBufLen - 1
                /\ WrittenPast(ColumnsOf(rs)[i].name) = 0
                /\ NulTerminated(e.name)

(***************************************************************************)
(* The out-parameters of ws_fetch_block, checked under SpecOwn, where the  *)
(* caller passes the same two variables to the calls on all its handles.   *)
(***************************************************************************)
\* C25: ws_fetch_block on a live handle writes the block pointer of the
\* caller only when it hands out a block, and then with the address of the
\* block the handle holds after the call.  A call that returns 0 with a row
\* count of 0 leaves the pointer as it was: if it was the address of the
\* block the handle held before the call, it still is, and no handle holds
\* that block any more.  A call on a handle in the error state returns the
\* error code and leaves both the pointer and the row count as they were.
C25_OutPointerFrame ==
    [][\A rs \in ResultHandles :
          (Did("ws_fetch_block") /\ ret'.h = rs) =>
             /\ outp'.ptr # outp.ptr =>
                   /\ ret'.val = 0
                   /\ IsSome(heap'[rs].block)
                   /\ outp'.rows = nrows(Unwrap(heap'[rs].block))
             /\ IsSome(heap'[rs].block) /\ ~InError(rs) =>
                   outp'.ptr = as_ptr(Unwrap(heap'[rs].block))
             /\ (~InError(rs) /\ outp'.rows = 0) =>
                   /\ ret'.val = 0
                   /\ outp'.ptr = outp.ptr
                   /\ heap'[rs].block = None
                   /\ (IsSome(heap[rs].block) /\ outp.ptr = as_ptr(Unwrap(heap[rs].block))) =>
                         /\ outp'.ptr = as_ptr(Unwrap(heap[rs].block))
                         /\ heap[rs].block \notin HeldIn(heap')
             /\ InError(rs) =>
                   /\ ret'.val = heap[rs].rs.err.code
                   /\ outp' = outp]_vars
\* a call on a handle in the error state came after another handle had
\* handed out a block: the caller's variables still show that block
C25_Witness ==
    /\ ret.op = "ws_fetch_block"
    /\ ret.h \in ResultHandles
    /\ InError(ret.h)
    /\ ret.val # 0
    /\ outp.ptr # NullPtr
    /\ outp.rows > 0
\* a call reported the end of the data and the caller's pointer still is the
\* address of the block the handle gave up
C25_WitnessEnd ==
    /\ ret.op = "ws_fetch_block"
    /\ ret.h \in ResultHandles
    /\ AtEnd(ret.h)
    /\ ret.val = 0
    /\ outp.rows = 0
    /\ outp.ptr = <<heap[ret.h].rs.val.serial, heap[ret.h].rs.val.pos>>
    /\ outp.ptr \notin {as_ptr(Unwrap(b)) : b \in HeldIn(heap)}

(***************************************************************************)
(* The two widths of a column, checked under SpecMeta.                     *)
(***************************************************************************)
\* the range of the 16-bit width field
U16Range == 65536
\* both arrays of the handle have an entry for column i
BothBuilt(rs, i) == i \in DOMAIN heap[rs].fields /\ i \in DOMAIN heap[rs].fields_v2

\* C26: for every column whose name fits the name buffer, the width of the
\* entry with the 32-bit field is the declared width of the column, and the
\* width of the entry with the 16-bit field is that width modulo 2^16: the
\* two are equal when the declared width is below 65536, and otherwise the
\* 16-bit one is the smaller, with a difference that is a multiple of 65536.
C26_LegacyWidthTruncated ==
    \A rs \in ResultHandles :
        heap[rs].rs.ok =>
           \A i \in 1..Len(ColumnsOf(rs)) :
              (BothBuilt(rs, i) /\ WrittenPast(ColumnsOf(rs)[i].name) = 0) =>
                 LET declared == ColumnsOf(rs)[i].bytes
                     wide     == heap[rs].fields[i].bytes
                     narrow   == heap[rs].fields_v2[i].bytes
                 IN  /\ wide = declared
                     /\ narrow \in 0..(U16Range - 1)
                     /\ (wide - narrow) % U16Range = 0
                     /\ declared < U16Range => narrow = wide
                     /\ declared >= U16Range => narrow < wide
\* both arrays were built for a column declared 70000 bytes wide: the one
\* entry says 70000 and the other 4464
C26_Witness ==
    \E rs \in ResultHandles :
        /\ heap[rs].rs.ok
        /\ BothBuilt(rs, 1)
        /\ ColumnsOf(rs)[1].bytes = 70000
        /\ heap[rs].fields[1].bytes = 70000
        /\ heap[rs].fields_v2[1].bytes = 4464
\* both arrays were built for a column of the widest declared width that the
\* 16-bit field holds, and for one a byte wider, whose 16-bit width is 0
C26_WitnessEdge ==
    \E rs \in ResultHandles :
        /\ heap[rs].rs.ok
        /\ BothBuilt(rs, 1)
        /\ \/ heap[rs].fields[1].bytes = 65535 /\ heap[rs].fields_v2[1].bytes = 65535
           \/ heap[rs].fields[1].bytes = 65536 /\ heap[rs].fields_v2[1].bytes = 0

=============================================================================
